---- MODULE Spec2Model ----
(***************************************************************************)
(* A model of euphony (src/src/*.ts, latest revision of every file): the   *)
(* Playback scheduling state machine, its asynchronous load(), the buffer  *)
(* resize, Group.sync() over a tree of Groups and Playbacks, and the       *)
(* Analyser's banded frequencies and thresholded signal.                   *)
(*                                                                         *)
(* The host audio engine (Web Audio) is modelled by the part of its        *)
(* contract the code consumes: a monotonic clock, one-shot buffer source   *)
(* nodes (start once, stop only after start, no negative offset), audio    *)
(* buffers of at least one frame, and asynchronous decoding.               *)
(*                                                                         *)
(* Time is counted in integer ticks of the engine clock.                   *)
(***************************************************************************)
EXTENDS Integers, Sequences, FiniteSets, TLC

\* ------------------------------------------------------------------ bounds
MaxClock == 2
MaxDelay == 1
MaxLen == 2
MaxChannels == 2
MaxLoads == 2
MaxUpdates == 5
NumPlaybacks == 3
NumGroups == 3
MaxLeafLen == 3
MaxBroadcasts == 3
MaxStack == 5
MaxWalks == 2
MaxDataUpdates == 3
MaxNewGroups == 2
MaxSources == 2
MaxGroupCalls == 2

\* The value of a variable in a specification it takes no part in.
Apart == "apart"

Pids == 1..NumPlaybacks
Gids == 1..NumGroups
Delays == 0..MaxDelay

VARIABLES
  clock,      \* CONTEXT.currentTime
  pb,         \* pb[p]: the fields of Playback p
  last,       \* the last handler call: its arguments, the state it found, the engine calls it made
  hist,       \* per Playback, bookkeeping of the calls made so far
  loads,      \* the load() calls made so far, in order of issue
  an,         \* the fields of an Analyser
  anLast,     \* the last call on the Analyser: what it found and the callbacks it ran
  fired,      \* the callbacks the Analyser ran so far, in order
  groups,     \* groups[g]: the sources list of Group g
  gLast,      \* the last call on a Group: its argument and the Playbacks it found
  graph,      \* the connections of the audio graph: pairs <<from node, to node>>
  cLast       \* the last connect() call: its receiver, its destination, the graph it found

pbVars == <<clock, pb, last, hist, loads>>

anVars == <<an, anLast, fired>>

grVars == <<groups, gLast>>

cnVars == <<graph, cLast>>

vars == <<clock, pb, last, hist, loads, an, anLast, fired, groups, gLast, graph, cLast>>

\* ------------------------------------------------------------- JS numbers

Abs(x) == IF x < 0 THEN -x ELSE x

\* JavaScript's % on integers: the remainder takes the sign of the dividend.
JsRem(a, b) == IF a < 0 THEN -(Abs(a) % b) ELSE a % b

\* JavaScript's truthiness of a number, as in `if (this._pauseTime)`.
Truthy(x) == x # 0

Max(a, b) == IF a > b THEN a ELSE b

\* ----------------------------------------------------------- audio buffers
\* An AudioBuffer is [rate |-> sample rate, ch |-> <<channel 1, channel 2, ...>>],
\* every channel a sequence of samples of the same length.

\* CONTEXT.sampleRate, in frames per tick.
SampleRate == 2

Zeros(n) == [k \in 1..n |-> 0]

\* CONTEXT.createBuffer(channels, length, rate) rejects a length below one
\* frame (NotSupportedError).
CreateBufferThrows(length) == length < 1

\* CONTEXT.createBuffer(channels, length, rate): silence.
CreateBuffer(channels, length, rate) ==
  [rate |-> rate, ch |-> [c \in 1..channels |-> Zeros(length)]]

BufferLength(b) == Len(b.ch[1])

NumberOfChannels(b) == Len(b.ch)

\* AudioBuffer.copyFromChannel(destination, c): copies as many frames as fit
\* in the shorter of the two, the rest of destination is left as it was.
CopyFromChannel(b, c, destination) ==
  [k \in 1..Len(destination) |->
     IF k <= BufferLength(b) THEN b.ch[c][k] ELSE destination[k]]

\* AudioBuffer.copyToChannel(source, c): the same, into channel c of b.
CopyToChannel(b, c, source) ==
  [b EXCEPT !.ch[c] = [k \in 1..Len(@) |->
     IF k <= Len(source) THEN source[k] ELSE @[k]]]

\* What decodeAudioData yields for a file of `channels` channels and `length`
\* frames, resampled to the context's rate: every sample is non-zero and
\* differs from every other one.
Decoded(channels, length) ==
  [rate |-> SampleRate,
   ch |-> [c \in 1..channels |-> [k \in 1..length |-> 10 * c + k]]]

DecodedBuffers ==
  {Decoded(c, n) : c \in 1..MaxChannels, n \in 1..MaxLen}

\* ------------------------------------------------------------ source nodes
\* An AudioBufferSourceNode: the buffer and loop flag it was given, whether
\* start() was called on it (and with what), whether it feeds the gain node.

\* CONTEXT.createBufferSource() with buffer, loop and connect(gainNode) applied.
NewSource(buffer, loop) ==
  [buf |-> buffer, loop |-> loop, started |-> FALSE, when |-> 0, offset |-> 0,
   connected |-> TRUE]

\* AudioBufferSourceNode.start(when, offset) throws on a node already started
\* (InvalidStateError) and on a negative argument (RangeError).
StartThrows(n, when, offset) == n.started \/ when < 0 \/ offset < 0

\* AudioBufferSourceNode.stop(when) throws on a node never started
\* (InvalidStateError) and on a negative time (RangeError).
StopThrows(n, when) == ~n.started \/ when < 0

\* Engine calls a handler makes, as logged in last.engine.
ECall(f, a, b) == [f |-> f, a |-> a, b |-> b]

ReplaceCalls ==
  <<ECall("createBufferSource", 0, 0), ECall("disconnect", 0, 0),
    ECall("connect", 0, 0)>>

ReplaceSourceKeepsNode(s) == s

\* _replaceSource had it left the loop flag of the new node at its default.
ReplaceSourceLoopDefault(s) == [s EXCEPT !.node = NewSource(s.buffer, FALSE)]

\* Playback._replaceSource: a fresh node around the stored buffer, with the
\* loop flag of the node it replaces, connected to the gain node.
ReplaceSource(s) == [s EXCEPT !.node = NewSource(s.buffer, s.node.loop)]

\* --------------------------------------------------------------- Playback

\* The constructor: playing false, both times 0, a one-frame silent buffer
\* and a source node around it.
NewPlayback(loop) ==
  LET b == CreateBuffer(1, 1, SampleRate)
  IN [playing |-> FALSE, startTime |-> 0, pauseTime |-> 0, buffer |-> b,
      node |-> NewSource(b, loop)]

\* last: the handler that ran last (op, its Playback p, its argument arg, the
\* engine time now), whether its guard let its body run (ran), whether an
\* engine call in it threw (threw), the fields (pre) and call history (preHist)
\* it found, and the engine calls it made (engine).
\* hist[p].ran: the last of play/pause/stop whose body ran ("none" before any);
\* hist[p].stop: whether stop() was called since, and in which state it found
\* the Playback ("none", "playing", "paused").
NoHist == [ran |-> "none", stop |-> "none"]

Paused(p) == hist[p].ran = "pause"

NoCall ==
  [op |-> "none", p |-> 0, arg |-> 0, now |-> 0, ran |-> FALSE, threw |-> FALSE,
   pre |-> NewPlayback(FALSE), preHist |-> NoHist, engine |-> <<>>]

Call(op, p, arg, ran, threw, engine) ==
  [op |-> op, p |-> p, arg |-> arg, now |-> clock, ran |-> ran, threw |-> threw,
   pre |-> pb[p], preHist |-> hist[p], engine |-> engine]

PlayGuardMissing(s) == TRUE

\* play(): `if (!this._playing)`.
PlayGuard(s) == ~s.playing

\* play(): the offset, from the recorded pause time if there is one.
PlayOffset(s) ==
  IF Truthy(s.pauseTime)
    THEN JsRem(s.pauseTime - s.startTime, BufferLength(s.buffer))
    ELSE 0

\* play() had it left the recorded pause time in place.
PlayResultKeepsPauseTime(s, now, d) ==
  LET adjustedDelay == now + d
      offset == PlayOffset(s)
      t == [s EXCEPT !.playing = TRUE]
  IN IF StartThrows(s.node, adjustedDelay, offset)
       THEN t
       ELSE [t EXCEPT !.node = [@ EXCEPT !.started = TRUE,
                                        !.when = adjustedDelay,
                                        !.offset = offset],
                      !.startTime = adjustedDelay - offset]

\* play(): the fields after the call, given the engine clock and the delay.
PlayResult(s, now, d) ==
  LET adjustedDelay == now + d
      offset == PlayOffset(s)
      t == [s EXCEPT !.playing = TRUE, !.pauseTime = 0]
  IN IF StartThrows(s.node, adjustedDelay, offset)
       THEN t
       ELSE [t EXCEPT !.node = [@ EXCEPT !.started = TRUE,
                                        !.when = adjustedDelay,
                                        !.offset = offset],
                      !.startTime = adjustedDelay - offset]

Play(p, d) ==
  LET s == pb[p]
      adjustedDelay == clock + d
      threw == StartThrows(s.node, adjustedDelay, PlayOffset(s))
  IN /\ IF PlayGuard(s)
          THEN /\ pb' = [pb EXCEPT ![p] = PlayResult(s, clock, d)]
               /\ hist' = [hist EXCEPT ![p] = [ran |-> "play", stop |-> "none"]]
               /\ last' = Call("play", p, d, TRUE, threw,
                               <<ECall("start", adjustedDelay, PlayOffset(s))>>)
          ELSE /\ UNCHANGED <<pb, hist>>
               /\ last' = Call("play", p, d, FALSE, FALSE, <<>>)
     /\ UNCHANGED <<clock, loads, anVars, grVars, cnVars>>

\* pause(): `if (this._playing)`.
PauseGuard(s) == s.playing

\* pause(): the fields after the call.
PauseResult(s, now, d) ==
  LET adjustedDelay == now + d
      t == [s EXCEPT !.playing = FALSE]
  IN IF StopThrows(s.node, adjustedDelay)
       THEN t
       ELSE ReplaceSource([t EXCEPT !.pauseTime = adjustedDelay])

Pause(p, d) ==
  LET s == pb[p]
      adjustedDelay == clock + d
      threw == StopThrows(s.node, adjustedDelay)
  IN /\ IF PauseGuard(s)
          THEN /\ pb' = [pb EXCEPT ![p] = PauseResult(s, clock, d)]
               /\ hist' = [hist EXCEPT ![p] = [ran |-> "pause", stop |-> "none"]]
               /\ last' = Call("pause", p, d, TRUE, threw,
                               <<ECall("stop", adjustedDelay, 0)>>
                                 \o (IF threw THEN <<>> ELSE ReplaceCalls))
          ELSE /\ UNCHANGED <<pb, hist>>
               /\ last' = Call("pause", p, d, FALSE, FALSE, <<>>)
     /\ UNCHANGED <<clock, loads, anVars, grVars, cnVars>>

StopGuardMissing(s) == TRUE

\* stop(): `if (this._playing)`.
StopGuard(s) == s.playing

\* stop() had it recorded the pause time as pause() does.
StopResultAsPause(s, now, d) == PauseResult(s, now, d)

\* stop(): the fields after the call.
StopResult(s, now, d) ==
  LET adjustedDelay == now + d
      t == [s EXCEPT !.playing = FALSE]
  IN IF StopThrows(s.node, adjustedDelay) THEN t ELSE ReplaceSource(t)

Stop(p, d) ==
  LET s == pb[p]
      adjustedDelay == clock + d
      threw == StopThrows(s.node, adjustedDelay)
  IN /\ IF StopGuard(s)
          THEN /\ pb' = [pb EXCEPT ![p] = StopResult(s, clock, d)]
               /\ hist' = [hist EXCEPT ![p] = [ran |-> "stop", stop |-> "playing"]]
               /\ last' = Call("stop", p, d, TRUE, threw,
                               <<ECall("stop", adjustedDelay, 0)>>
                                 \o (IF threw THEN <<>> ELSE ReplaceCalls))
          ELSE /\ UNCHANGED pb
               /\ hist' = [hist EXCEPT ![p].stop =
                             IF Paused(p) /\ @ = "none" THEN "paused" ELSE @]
               /\ last' = Call("stop", p, d, FALSE, FALSE, <<>>)
     /\ UNCHANGED <<clock, loads, anVars, grVars, cnVars>>

\* getPlaybackTime(), read at engine time `now`.
GetPlaybackTime(s, now) ==
  IF s.playing
    THEN JsRem(now - s.startTime, BufferLength(s.buffer))
    ELSE IF Truthy(s.pauseTime)
           THEN JsRem(s.pauseTime - s.startTime, BufferLength(s.buffer))
           ELSE 0

\* adjustBuffer(): the loop over the channels, from channel c on, with the one
\* transfer array shared by all of them.
RECURSIVE CopyChannels(_, _, _, _)
CopyChannels(old, replacement, transfer, c) ==
  IF c > NumberOfChannels(old)
    THEN replacement
    ELSE LET filled == CopyFromChannel(old, c, transfer)
         IN CopyChannels(old, CopyToChannel(replacement, c, filled), filled, c + 1)

\* adjustBuffer(length) had it left out the copy of the channels.
AdjustedBufferNoCopy(b, length) ==
  CreateBuffer(NumberOfChannels(b), length, b.rate)

\* adjustBuffer(length): the replacement buffer.
AdjustedBuffer(b, length) ==
  CopyChannels(b, CreateBuffer(NumberOfChannels(b), length, b.rate),
               Zeros(length), 1)

\* adjustBuffer(length): the fields after the call.
AdjustResult(s, length) ==
  IF CreateBufferThrows(length)
    THEN s
    ELSE ReplaceSource([s EXCEPT !.buffer = AdjustedBuffer(s.buffer, length)])

AdjustBuffer(p, length) ==
  /\ pb' = [pb EXCEPT ![p] = AdjustResult(pb[p], length)]
  /\ last' = Call("adjustBuffer", p, length, TRUE, CreateBufferThrows(length),
                  <<ECall("createBuffer", NumberOfChannels(pb[p].buffer), length)>>
                    \o (IF CreateBufferThrows(length) THEN <<>> ELSE ReplaceCalls))
  /\ UNCHANGED <<clock, hist, loads, anVars, grVars, cnVars>>

\* set loop(value): the flag of the current source node.
SetLoop(p, value) ==
  /\ pb' = [pb EXCEPT ![p].node.loop = value]
  /\ last' = Call("loop", p, value, TRUE, FALSE, <<>>)
  /\ UNCHANGED <<clock, hist, loads, anVars, grVars, cnVars>>

\* get loop()
GetLoop(s) == s.node.loop

\* The engine clock advances.
Tick ==
  /\ clock < MaxClock
  /\ clock' = clock + 1
  /\ UNCHANGED <<pb, last, hist, loads, anVars, grVars, cnVars>>

\* ------------------------------------------------------------------- load
\* loads[l]: the Playback, where the call stands ("fetching", "decoding",
\* "loaded", "fetchFailed", "decodeFailed"), the promise load() returned, how
\* often each callback ran, the order of what happened, the buffer the
\* Playback held when the promise was fulfilled (what a continuation chained
\* on load() finds; <<>> before), and the buffer this load decoded (<<>> before).
NewLoad(p) ==
  [p |-> p, state |-> "fetching", promise |-> "pending", onLoad |-> 0,
   onError |-> 0, events |-> <<>>, thenSaw |-> <<>>, decoded |-> <<>>]

\* load(url, callbacks): fetch(url) is issued, nothing else happens yet.
Load(p) ==
  /\ Len(loads) < MaxLoads
  /\ loads' = Append(loads, NewLoad(p))
  /\ last' = Call("load", p, Len(loads) + 1, TRUE, FALSE, <<ECall("fetch", 0, 0)>>)
  /\ UNCHANGED <<clock, pb, hist, anVars, grVars, cnVars>>

FetchOutcomes == {"ok", "notOk", "transportError"}

\* The promise chain of load() once fetch() settled with a usable response:
\* the second `then` calls decodeAudioData and returns at once, so the chain
\* is fulfilled and `catch` is skipped.
FetchedOk(ld, s) ==
  [ld EXCEPT !.state = "decoding", !.promise = "fulfilled",
             !.events = @ \o <<"decodeAudioData", "fulfilled">>,
             !.thenSaw = s.buffer]

\* The promise chain had its catch run onLoad next to onError.
FetchedBadCallsOnLoad(ld) ==
  [ld EXCEPT !.state = "fetchFailed", !.promise = "rejected",
             !.onError = @ + 1, !.onLoad = @ + 1,
             !.events = @ \o <<"onError", "onLoad", "rejected">>]

\* The promise chain of load() once fetch() was rejected or the response was
\* not ok: both `then` are skipped or thrown out of, `catch` runs onError and
\* throws again.
FetchedBad(ld) ==
  [ld EXCEPT !.state = "fetchFailed", !.promise = "rejected",
             !.onError = @ + 1, !.events = @ \o <<"onError", "rejected">>]

FetchSettles(l, outcome) ==
  /\ l \in 1..Len(loads)
  /\ loads[l].state = "fetching"
  /\ loads' = [loads EXCEPT ![l] =
                 IF outcome = "ok" THEN FetchedOk(@, pb[@.p]) ELSE FetchedBad(@)]
  /\ last' = Call("fetchSettles", loads[l].p, l, TRUE, outcome # "ok",
                  IF outcome = "ok" THEN <<ECall("decodeAudioData", 0, 0)>> ELSE <<>>)
  /\ UNCHANGED <<clock, pb, hist, anVars, grVars, cnVars>>

\* The success callback given to decodeAudioData.
DecodedOk(ld, decoded) ==
  [ld EXCEPT !.state = "loaded", !.onLoad = @ + 1, !.decoded = decoded,
             !.events = @ \o <<"swap", "replaceSource", "onLoad">>]

\* decodeAudioData was given no error callback and its promise is dropped:
\* a failed decode reaches no code of load().
DecodedBad(ld) == [ld EXCEPT !.state = "decodeFailed"]

\* The success callback had it kept a buffer that an earlier load() swapped in.
DecodeResultFirstWins(s, decoded) ==
  IF s.buffer = CreateBuffer(1, 1, SampleRate)
    THEN ReplaceSource([s EXCEPT !.buffer = decoded])
    ELSE s

\* The success callback: the fields of the Playback after it.
DecodeResult(s, decoded) == ReplaceSource([s EXCEPT !.buffer = decoded])

\* The success callback had it written to the Playback of the newest load().
ThisOfNewestLoad(l) == loads[Len(loads)].p

\* `this` in the callbacks of load number l: arrow functions, so the Playback
\* load() was called on.
This(l) == loads[l].p

DecodeSucceeds(l, decoded) ==
  /\ l \in 1..Len(loads)
  /\ loads[l].state = "decoding"
  /\ pb' = [pb EXCEPT ![This(l)] = DecodeResult(@, decoded)]
  /\ loads' = [loads EXCEPT ![l] = DecodedOk(@, decoded)]
  /\ last' = Call("decodeSucceeds", loads[l].p, l, TRUE, FALSE, ReplaceCalls)
  /\ UNCHANGED <<clock, hist, anVars, grVars, cnVars>>

DecodeFails(l) ==
  /\ l \in 1..Len(loads)
  /\ loads[l].state = "decoding"
  /\ loads' = [loads EXCEPT ![l] = DecodedBad(@)]
  /\ last' = Call("decodeFails", loads[l].p, l, TRUE, TRUE, <<>>)
  /\ UNCHANGED <<clock, pb, hist, anVars, grVars, cnVars>>

\* --------------------------------------------------------------- Analyser
\* Values the code keeps as fractions are kept as their numerators: a
\* frequency or band value v stands for v/255, a threshold t for t/100, and
\* the amplitude is the pair of the sum of the raw bytes and the bin count.

\* The fftSize an Analyser of the model is built with.
FftSizes == {32}

\* The numberOfBands option: 1 .. floor(ln 32).
BandCounts == 1..3

\* The threshold option, in hundredths.
Thresholds == {20, 30}

\* AnalyserNode.frequencyBinCount.
FrequencyBinCount(a) == a.fftSize \div 2

RECURSIVE Power(_, _)
Power(x, n) == IF n = 0 THEN 1 ELSE x * Power(x, n - 1)

\* Numbers too large for the checker's integers, as their digits in base
\* Base, the lowest first.
Base == 10000

RECURSIVE BigTimes(_, _, _)
BigTimes(digits, m, carry) ==
  IF digits = <<>>
    THEN (IF carry = 0 THEN <<>> ELSE <<carry % Base>> \o BigTimes(<<>>, m, carry \div Base))
    ELSE <<(Head(digits) * m + carry) % Base>>
           \o BigTimes(Tail(digits), m, (Head(digits) * m + carry) \div Base)

RECURSIVE BigPower(_, _)
BigPower(x, n) == IF n = 0 THEN <<1>> ELSE BigTimes(BigPower(x, n - 1), x, 0)

RECURSIVE BigLeq(_, _)
BigLeq(a, b) ==
  IF Len(a) # Len(b)
    THEN Len(a) < Len(b)
    ELSE \/ a = <<>>
         \/ a[Len(a)] < b[Len(b)]
         \/ (a[Len(a)] = b[Len(b)] /\ BigLeq(SubSeq(a, 1, Len(a) - 1), SubSeq(b, 1, Len(b) - 1)))

\* Math.floor(x * Math.exp(Math.log(fftSize) / numberOfBands)): the largest k
\* with k^numberOfBands <= x^numberOfBands * fftSize.  The code computes it in
\* floating point, which gives the same number unless fftSize is an exact
\* numberOfBands-th power (64 and 3, 256 and 4, ...); the model keeps to the
\* other settings.
FloorTimesFactor(x, fftSize, numberOfBands) ==
  LET bound == BigTimes(BigPower(x, numberOfBands), fftSize, 0)
  IN CHOOSE k \in 0..(x * fftSize) :
       /\ BigLeq(BigPower(k, numberOfBands), bound)
       /\ ~BigLeq(BigPower(k + 1, numberOfBands), bound)

\* calcBandIntervals(): the loop from i on, `intervals` being what it built.
RECURSIVE BandLoop(_, _, _, _)
BandLoop(intervals, i, fftSize, numberOfBands) ==
  IF i < numberOfBands - 1
    THEN BandLoop(Append(intervals,
                         FloorTimesFactor(intervals[Len(intervals)], fftSize,
                                          numberOfBands)),
                  i + 1, fftSize, numberOfBands)
    ELSE intervals

\* calcBandIntervals().
CalcBandIntervals(fftSize, numberOfBands) ==
  BandLoop(<<1>>, 1, fftSize, numberOfBands)

\* _bandIntervals.findIndex(interval => interval > i): the 0-based index of
\* the first interval above bin i, -1 when there is none.
FindIndex(intervals, i) ==
  IF \E j \in 1..Len(intervals) : intervals[j] > i
    THEN (CHOOSE j \in 1..Len(intervals) :
            /\ intervals[j] > i
            /\ \A h \in 1..(j - 1) : intervals[h] <= i) - 1
    ELSE -1

SetMax(S) == CHOOSE x \in S : \A y \in S : y <= x

\* The bands after the loop of updateFrequency(): band `b` (0-based) holds the
\* largest value among the bins findIndex sent to it, 0 if none; a write at
\* index -1 of the typed array stores nothing.
BandsOf(intervals, numberOfBands, raw) ==
  [b \in 1..numberOfBands |->
     LET mine == {raw[i + 1] : i \in {j \in 0..(Len(raw) - 1) :
                                        FindIndex(intervals, j) = b - 1}}
     IN IF mine = {} THEN 0 ELSE SetMax(mine)]

RECURSIVE SumSeq(_, _)
SumSeq(q, n) == IF n = 0 THEN 0 ELSE q[n] + SumSeq(q, n - 1)

\* AnalyserOptionsDefaults; threshold and smoothingTimeConstant in hundredths.
\* They are also what CONTEXT.createAnalyser() gives the engine's node.
AnalyserOptionsDefaults ==
  [threshold |-> 20, numberOfBands |-> 5, fftSize |-> 2048,
   minDecibels |-> -100, maxDecibels |-> -30, smoothingTimeConstant |-> 80]

\* The constructor, for options that pass every setter's check and leave the
\* decibel range and the smoothing at their defaults.
NewAnalyser(fftSize, numberOfBands, threshold) ==
  [fftSize |-> fftSize,
   minDecibels |-> AnalyserOptionsDefaults.minDecibels,
   maxDecibels |-> AnalyserOptionsDefaults.maxDecibels,
   smoothingTimeConstant |-> AnalyserOptionsDefaults.smoothingTimeConstant,
   threshold |-> threshold,
   numberOfBands |-> numberOfBands,
   bandIntervals |-> CalcBandIntervals(fftSize, numberOfBands),
   frequencyBuffer |-> Zeros(fftSize \div 2),
   frequency |-> Zeros(fftSize \div 2),
   bands |-> Zeros(numberOfBands),
   amplitude |-> [sum |-> 0, bins |-> fftSize \div 2],
   signal |-> FALSE,
   waveformBuffer |-> Zeros(fftSize),
   waveform |-> Zeros(fftSize)]

\* updateFrequency(): `this.#amplitude >= this.#threshold`, the amplitude
\* being sum / bins / 255 and the threshold threshold / 100.
AtOrOver(amplitude, threshold) ==
  amplitude.sum * 100 >= threshold * amplitude.bins * 255

\* The signal update had it not looked at the previous signal.
SignalCallbacksLevel(signal, over) ==
  IF over THEN <<"onSignal">> ELSE <<"offSignal">>

\* updateFrequency(): the callbacks the signal update runs.
SignalCallbacks(signal, over) ==
  IF over
    THEN (IF ~signal THEN <<"onSignal">> ELSE <<>>)
    ELSE (IF signal THEN <<"offSignal">> ELSE <<>>)

\* updateFrequency() had it begun its sum at the previous one.
UpdateFrequencyResultRunningSum(a, raw) ==
  LET amplitude == [sum |-> a.amplitude.sum + SumSeq(raw, Len(raw)),
                    bins |-> FrequencyBinCount(a)]
  IN [a EXCEPT !.frequencyBuffer = raw,
               !.frequency = raw,
               !.bands = BandsOf(a.bandIntervals, Len(a.bands), raw),
               !.amplitude = amplitude,
               !.signal = AtOrOver(amplitude, a.threshold)]

\* updateFrequency(), the engine handing over the bytes `raw`.
UpdateFrequencyResult(a, raw) ==
  LET amplitude == [sum |-> SumSeq(raw, Len(raw)), bins |-> FrequencyBinCount(a)]
  IN [a EXCEPT !.frequencyBuffer = raw,
               !.frequency = raw,
               !.bands = BandsOf(a.bandIntervals, Len(a.bands), raw),
               !.amplitude = amplitude,
               !.signal = AtOrOver(amplitude, a.threshold)]

\* The raw bytes of the model: `level` in every bin but one, `peak` there.
Frame(bins, level, peak, at) ==
  [i \in 1..bins |-> IF i = at + 1 THEN peak ELSE level]

\* Level and peak of the frames: over 16 bins their amplitudes are 0, 0.1,
\* 0.2, 0.25, 0.3 and 1.
Levels == {<<0, 0>>, <<25, 33>>, <<51, 51>>, <<63, 75>>, <<76, 84>>, <<255, 255>>}

PeakBins == {0, 2, 15}

Frames(a) ==
  {Frame(FrequencyBinCount(a), lp[1], lp[2], at) : lp \in Levels, at \in PeakBins}

UpdateFrequency(raw) ==
  /\ anLast.n < MaxUpdates
  /\ an' = UpdateFrequencyResult(an, raw)
  /\ LET ran == SignalCallbacks(an.signal, AtOrOver(an'.amplitude, an.threshold))
     IN /\ anLast' = [op |-> "updateFrequency", n |-> anLast.n + 1, arg |-> raw,
                      pre |-> an, ran |-> ran, threw |-> FALSE]
        /\ fired' = fired \o ran
  /\ UNCHANGED <<pbVars, grVars, cnVars>>

\* updateWaveform() had it followed its comment: subtract 127, divide by 127.
UpdateWaveformResult127(a, raw) ==
  [a EXCEPT !.waveformBuffer = raw,
            !.waveform = [i \in 1..Len(a.waveform) |->
                            IF i <= a.fftSize THEN raw[i] - 127 ELSE a.waveform[i]]]

\* updateWaveform() had it reset the frequency data as well.
UpdateWaveformResultClearing(a, raw) ==
  [a EXCEPT !.waveformBuffer = raw,
            !.waveform = [i \in 1..Len(a.waveform) |->
                            IF i <= a.fftSize THEN raw[i] - 128 ELSE a.waveform[i]],
            !.frequency = Zeros(Len(a.frequency))]

\* updateWaveform(): the raw bytes of getByteTimeDomainData, and for i below
\* fftSize waveform[i] = (raw[i] - 128) / 128, kept as its numerator over 128.
UpdateWaveformResult(a, raw) ==
  [a EXCEPT !.waveformBuffer = raw,
            !.waveform = [i \in 1..Len(a.waveform) |->
                            IF i <= a.fftSize THEN raw[i] - 128 ELSE a.waveform[i]]]

\* The time-domain bytes of the model: level and peak of a frame.
WaveLevels == {<<128, 128>>, <<0, 255>>, <<127, 129>>}

WaveFrames(a) ==
  {Frame(Len(a.waveformBuffer), lp[1], lp[2], Len(a.waveformBuffer) - 1) :
     lp \in WaveLevels}

UpdateWaveform(raw) ==
  /\ anLast.n < MaxUpdates
  /\ an' = UpdateWaveformResult(an, raw)
  /\ anLast' = [op |-> "updateWaveform", n |-> anLast.n + 1, arg |-> raw,
                pre |-> an, ran |-> <<>>, threw |-> FALSE]
  /\ UNCHANGED <<pbVars, fired, grVars, cnVars>>

\* ------------------------------------------------- settings of the Analyser
\* Math.log2(value) % 1 === 0, for an integer value.
Log2IsInteger(value) == \E k \in 0..20 : Power(2, k) = value

\* set fftSize had it checked the bounds only.
FftSizeThrowsBoundsOnly(value) == value < Power(2, 5) \/ value > Power(2, 15)

\* set fftSize: the check that throws RangeError.
FftSizeThrows(value) ==
  value < Power(2, 5) \/ value > Power(2, 15) \/ ~Log2IsInteger(value)

\* set fftSize had it kept the arrays it found.
FftSizeResultKeepsArrays(a, value) == [a EXCEPT !.fftSize = value]

\* set fftSize past its check: the node's fftSize and the four arrays.
FftSizeResult(a, value) ==
  [a EXCEPT !.fftSize = value,
            !.frequencyBuffer = Zeros(value \div 2),
            !.frequency = Zeros(value \div 2),
            !.waveformBuffer = Zeros(value),
            !.waveform = Zeros(value)]

\* set minDecibels had it let the value equal to maxDecibels through.
MinDecibelsThrowsStrict(a, value) == value > a.maxDecibels

\* set minDecibels: the check that throws RangeError.
MinDecibelsThrows(a, value) == value >= a.maxDecibels

\* set maxDecibels: the check that throws RangeError.
MaxDecibelsThrows(a, value) == value <= a.minDecibels

\* set smoothingTimeConstant and set threshold: the check that throws
\* RangeError, the value in hundredths.
UnitRangeThrows(value) == value < 0 \/ value > 100

\* floor(e^count) for count = 1, 2, ...
ExpFloors == <<2, 7, 20, 54, 148, 403, 1096, 2980, 8103, 22026, 59874>>

\* count > Math.log(fftSize), for integers count >= 1 and fftSize >= 1: the
\* same as e^count > fftSize.
OverLog(count, fftSize) ==
  count > Len(ExpFloors) \/ ExpFloors[count] >= fftSize

\* set numberOfBands: the checks that throw RangeError.
NumberOfBandsThrows(a, count) == count < 1 \/ OverLog(count, a.fftSize)

\* set numberOfBands past its checks.
NumberOfBandsResult(a, count) ==
  [a EXCEPT !.numberOfBands = count,
            !.bands = Zeros(count),
            !.bandIntervals = CalcBandIntervals(a.fftSize, count)]

\* { ...AnalyserOptionsDefaults, ...options }: options is a record of some of
\* the six fields.
UpdatedOptions(options) ==
  [f \in DOMAIN AnalyserOptionsDefaults |->
     IF f \in DOMAIN options THEN options[f] ELSE AnalyserOptionsDefaults[f]]

\* No Analyser: none was constructed, or the constructor threw.
Unbuilt == [built |-> FALSE]

Built(a) == "fftSize" \in DOMAIN a

\* Whether new Analyser(options) throws: it goes through the setters of
\* fftSize, minDecibels (the node's maxDecibels still being the one it was
\* created with), maxDecibels, smoothingTimeConstant and, last, numberOfBands;
\* the threshold option is assigned to #threshold without a check.
ConstructorThrows(options) ==
  LET o == UpdatedOptions(options)
  IN \/ FftSizeThrows(o.fftSize)
     \/ MinDecibelsThrows(AnalyserOptionsDefaults, o.minDecibels)
     \/ MaxDecibelsThrows(o, o.maxDecibels)
     \/ UnitRangeThrows(o.smoothingTimeConstant)
     \/ NumberOfBandsThrows(o, o.numberOfBands)

\* new Analyser(options) when nothing throws.
ConstructorResult(options) ==
  LET o == UpdatedOptions(options)
  IN [NewAnalyser(o.fftSize, o.numberOfBands, o.threshold)
        EXCEPT !.minDecibels = o.minDecibels,
               !.maxDecibels = o.maxDecibels,
               !.smoothingTimeConstant = o.smoothingTimeConstant]

\* anLast in the settings: the operation, its argument, the Analyser before
\* it, and whether it threw.
SettingCall(op, arg, threw) ==
  [op |-> op, n |-> anLast.n, arg |-> arg, pre |-> an, ran |-> <<>>, threw |-> threw]

Construct(options) ==
  /\ ~Built(an)
  /\ an' = IF ConstructorThrows(options) THEN Unbuilt ELSE ConstructorResult(options)
  /\ anLast' = SettingCall("construct", options, ConstructorThrows(options))
  /\ UNCHANGED <<pbVars, fired, grVars, cnVars>>

SetFftSize(value) ==
  /\ Built(an)
  /\ an' = IF FftSizeThrows(value) THEN an ELSE FftSizeResult(an, value)
  /\ anLast' = SettingCall("fftSize", value, FftSizeThrows(value))
  /\ UNCHANGED <<pbVars, fired, grVars, cnVars>>

SetMinDecibels(value) ==
  /\ Built(an)
  /\ an' = IF MinDecibelsThrows(an, value) THEN an ELSE [an EXCEPT !.minDecibels = value]
  /\ anLast' = SettingCall("minDecibels", value, MinDecibelsThrows(an, value))
  /\ UNCHANGED <<pbVars, fired, grVars, cnVars>>

SetMaxDecibels(value) ==
  /\ Built(an)
  /\ an' = IF MaxDecibelsThrows(an, value) THEN an ELSE [an EXCEPT !.maxDecibels = value]
  /\ anLast' = SettingCall("maxDecibels", value, MaxDecibelsThrows(an, value))
  /\ UNCHANGED <<pbVars, fired, grVars, cnVars>>

SetSmoothingTimeConstant(value) ==
  /\ Built(an)
  /\ an' = IF UnitRangeThrows(value) THEN an
                                     ELSE [an EXCEPT !.smoothingTimeConstant = value]
  /\ anLast' = SettingCall("smoothingTimeConstant", value, UnitRangeThrows(value))
  /\ UNCHANGED <<pbVars, fired, grVars, cnVars>>

SetThreshold(value) ==
  /\ Built(an)
  /\ an' = IF UnitRangeThrows(value) THEN an ELSE [an EXCEPT !.threshold = value]
  /\ anLast' = SettingCall("threshold", value, UnitRangeThrows(value))
  /\ UNCHANGED <<pbVars, fired, grVars, cnVars>>

SetNumberOfBands(count) ==
  /\ Built(an)
  /\ an' = IF NumberOfBandsThrows(an, count) THEN an ELSE NumberOfBandsResult(an, count)
  /\ anLast' = SettingCall("numberOfBands", count, NumberOfBandsThrows(an, count))
  /\ UNCHANGED <<pbVars, fired, grVars, cnVars>>

\* ------------------------------------------------------------------ Group
\* A source of a Group is a Playback or a Group.
P(p) == [kind |-> "Playback", id |-> p]

G(g) == [kind |-> "Group", id |-> g]

NoGroupCall == [op |-> "none", g |-> 0, forced |-> FALSE, arg |-> 0,
                threw |-> FALSE, pre |-> [p \in Pids |-> NewPlayback(FALSE)]]

\* _getMaxBufferLength() had it skipped the nested Groups.
RECURSIVE MaxLoopFlat(_, _, _, _, _)
MaxLoopFlat(gs, ps, g, i, maxLength) ==
  IF i > Len(gs[g])
    THEN maxLength
    ELSE LET source == gs[g][i]
         IN MaxLoopFlat(gs, ps, g, i + 1,
              IF source.kind = "Group"
                THEN maxLength
                ELSE Max(BufferLength(ps[source.id].buffer), maxLength))

\* _getMaxBufferLength() of Group g: its forEach from source i on, maxLength
\* being the largest length found so far.
RECURSIVE MaxLoop(_, _, _, _, _)
MaxLoop(gs, ps, g, i, maxLength) ==
  IF i > Len(gs[g])
    THEN maxLength
    ELSE LET source == gs[g][i]
         IN MaxLoop(gs, ps, g, i + 1,
              IF source.kind = "Group"
                THEN Max(MaxLoop(gs, ps, source.id, 1, 0), maxLength)
                ELSE Max(BufferLength(ps[source.id].buffer), maxLength))

GetMaxBufferLengthFlat(gs, ps, g) == MaxLoopFlat(gs, ps, g, 1, 0)

\* _getMaxBufferLength() of Group g.
GetMaxBufferLength(gs, ps, g) == MaxLoop(gs, ps, g, 1, 0)

\* sync(length) of Group g: its forEach from source i on. st.ps are the
\* Playbacks, st.threw says that an adjustBuffer() threw, which ends every
\* enclosing forEach.
RECURSIVE SyncLoop(_, _, _, _, _)
SyncLoop(gs, st, g, i, length) ==
  IF st.threw \/ i > Len(gs[g])
    THEN st
    ELSE LET source == gs[g][i]
         IN IF source.kind = "Group"
              THEN SyncLoop(gs, SyncLoop(gs, st, source.id, 1, length), g, i + 1, length)
              ELSE IF CreateBufferThrows(length)
                     THEN [st EXCEPT !.threw = TRUE]
                     ELSE SyncLoop(gs,
                            [st EXCEPT !.ps[source.id] = AdjustResult(@, length)],
                            g, i + 1, length)

\* sync(_length) had it measured only the Group's own Playbacks.
SyncLengthOwn(gs, ps, g, forced, length) ==
  IF forced THEN length ELSE GetMaxBufferLengthFlat(gs, ps, g)

\* sync(_length): the length it uses.
SyncLength(gs, ps, g, forced, length) ==
  IF forced THEN length ELSE GetMaxBufferLength(gs, ps, g)

SyncResult(gs, ps, g, forced, length) ==
  SyncLoop(gs, [ps |-> ps, threw |-> FALSE], g, 1,
           SyncLength(gs, ps, g, forced, length))

\* sync() without an argument (forced FALSE) or sync(length) on Group g.
Sync(g, forced, length) ==
  \E st \in {SyncResult(groups, pb, g, forced, length)} :
     /\ pb' = st.ps
     /\ gLast' = [op |-> "sync", g |-> g, forced |-> forced, arg |-> length,
                  threw |-> st.threw, pre |-> pb]
     /\ UNCHANGED <<clock, last, hist, loads, anVars, groups, cnVars>>

\* Group.play / pause / stop call the Playback method of the same name.
Method(op, s, now, d) ==
  CASE op = "play" -> IF PlayGuard(s) THEN PlayResult(s, now, d) ELSE s
    [] op = "pause" -> IF PauseGuard(s) THEN PauseResult(s, now, d) ELSE s
    [] op = "stop" -> IF StopGuard(s) THEN StopResult(s, now, d) ELSE s

\* Whether that call throws: the start() or stop() of the engine does.
MethodThrows(op, s, now, d) ==
  CASE op = "play" -> PlayGuard(s) /\ StartThrows(s.node, now + d, PlayOffset(s))
    [] op = "pause" -> PauseGuard(s) /\ StopThrows(s.node, now + d)
    [] op = "stop" -> StopGuard(s) /\ StopThrows(s.node, now + d)

\* Group.play(d) / pause(d) / stop(d) of Group g: its forEach from source i
\* on.  st.ps are the Playbacks, st.calls the sources the method was called
\* on so far, st.threw says that a call threw, which ends every enclosing
\* forEach.
RECURSIVE BroadcastLoop(_, _, _, _, _, _, _)
BroadcastLoop(gs, st, g, i, op, now, d) ==
  IF st.threw \/ i > Len(gs[g])
    THEN st
    ELSE LET source == gs[g][i]
             called == [st EXCEPT !.calls = Append(@, source)]
         IN IF source.kind = "Group"
              THEN BroadcastLoop(gs, BroadcastLoop(gs, called, source.id, 1, op, now, d),
                                 g, i + 1, op, now, d)
              ELSE BroadcastLoop(gs,
                     [called EXCEPT !.ps[source.id] = Method(op, @, now, d),
                                    !.threw = MethodThrows(op, st.ps[source.id], now, d)],
                     g, i + 1, op, now, d)

BroadcastResult(gs, ps, g, op, now, d) ==
  BroadcastLoop(gs, [ps |-> ps, threw |-> FALSE, calls |-> <<>>], g, 1, op, now, d)

\* Group.play(d), Group.pause(d) or Group.stop(d) on Group g.
Broadcast(g, op, d) ==
  \E st \in {BroadcastResult(groups, pb, g, op, clock, d)} :
     /\ gLast.n < MaxBroadcasts
     /\ pb' = st.ps
     /\ gLast' = [op |-> op, n |-> gLast.n + 1, g |-> g, arg |-> d, now |-> clock,
                  threw |-> st.threw, pre |-> pb, calls |-> st.calls]
     /\ UNCHANGED <<clock, last, hist, loads, anVars, groups, cnVars>>

\* ------------------------------------------- Groups and their arrays

\* The sources of a Group are held by reference.  Here `groups` is a heap:
\* groups.arrays are the arrays that exist, the first of them being
\* GroupOptionsDefaults.sources, created once when the module loads;
\* groups.objs[g] is Group g in order of construction: the array its #sources
\* refers to, whether a sources option was given, and the sources that were
\* handed to this very Group (in its constructor or by g.sources.push).
DefaultsArray == 1

\* The sources lists as the methods of the Groups see them.
SourcesOf(h) == [g \in 1..Len(h.objs) |-> h.arrays[h.objs[g].array]]

\* new Group(options): updatedOptions is { ...GroupOptionsDefaults, ...options }
\* and #sources is updatedOptions.sources, the array itself: the one array of
\* the defaults when no sources option is given, the caller's array otherwise.
NewGroupResult(h, given, sources) ==
  IF given
    THEN [arrays |-> Append(h.arrays, sources),
          objs |-> Append(h.objs, [array |-> Len(h.arrays) + 1, given |-> TRUE,
                                   own |-> sources])]
    ELSE [h EXCEPT !.objs = Append(@, [array |-> DefaultsArray, given |-> FALSE,
                                       own |-> <<>>])]

NewGroup(given, sources) ==
  /\ Len(groups.objs) < MaxNewGroups
  /\ groups' = NewGroupResult(groups, given, sources)
  /\ gLast' = [op |-> "new", n |-> gLast.n, g |-> Len(groups.objs) + 1,
               pre |-> groups, calls |-> <<>>]
  /\ UNCHANGED <<pbVars, anVars, cnVars>>

\* g.sources.push(source): the getter returns #sources, the array itself.
PushSource(g, source) ==
  /\ g \in 1..Len(groups.objs)
  /\ Len(groups.arrays[groups.objs[g].array]) < MaxSources
  /\ groups' = [groups EXCEPT !.arrays[groups.objs[g].array] = Append(@, source),
                              !.objs[g].own = Append(@, source)]
  /\ gLast' = [op |-> "push", n |-> gLast.n, g |-> g, pre |-> groups, calls |-> <<>>]
  /\ UNCHANGED <<pbVars, anVars, cnVars>>

\* g.play(0), g.pause(0), g.stop(0) on the Groups of the heap.
HeapBroadcast(g, op) ==
  /\ g \in 1..Len(groups.objs)
  /\ gLast.n < MaxGroupCalls
  /\ \E st \in {BroadcastResult(SourcesOf(groups), pb, g, op, clock, 0)} :
       /\ pb' = st.ps
       /\ gLast' = [op |-> op, n |-> gLast.n + 1, g |-> g, pre |-> groups,
                    calls |-> st.calls]
  /\ UNCHANGED <<clock, last, hist, loads, anVars, groups, cnVars>>

\* g.sync() on the Groups of the heap.
HeapSync(g) ==
  /\ g \in 1..Len(groups.objs)
  /\ gLast.n < MaxGroupCalls
  /\ pb' = SyncResult(SourcesOf(groups), pb, g, FALSE, 0).ps
  /\ gLast' = [op |-> "sync", n |-> gLast.n + 1, g |-> g, pre |-> groups,
               calls |-> SourcesOf(groups)[g]]
  /\ UNCHANGED <<clock, last, hist, loads, anVars, groups, cnVars>>

\* ------------------------------------ the calls on a Group, frame by frame

\* The same methods with their recursion laid out on a call stack, as the
\* engine runs them.  A frame is one activation of play / pause / stop / sync
\* or _getMaxBufferLength ("max") on Group g, at source i of its forEach;
\* arg is the delay or the length, has says that sync knows its length, acc
\* is maxLength.  gLast holds the call in progress: its stack, the sources
\* visited so far (calls), whether it threw, whether it is over (done).
ActivationFromSecond(fn, g, has, arg) ==
  [fn |-> fn, g |-> g, i |-> 2, has |-> has, arg |-> arg, acc |-> 0]

Activation(fn, g, has, arg) ==
  [fn |-> fn, g |-> g, i |-> 1, has |-> has, arg |-> arg, acc |-> 0]

Running == gLast.op # "none" /\ ~gLast.done

Top == gLast.stack[Len(gLast.stack)]

AtSource == Running /\ (Top.fn = "sync" => Top.has) /\ Top.i <= Len(groups[Top.g])

\* The stack with its top frame replaced by f.
WithTop(f) == [gLast.stack EXCEPT ![Len(gLast.stack)] = f]

\* g.play(d), g.pause(d), g.stop(d), g.sync() or g.sync(length) is called.
Enter(g, fn, has, arg) ==
  /\ ~Running
  /\ gLast.n < MaxWalks
  /\ gLast' = [op |-> fn, n |-> gLast.n + 1, g |-> g, forced |-> has, arg |-> arg,
               stack |-> <<Activation(fn, g, has, arg)>>, calls |-> <<>>,
               threw |-> FALSE, done |-> FALSE, pre |-> pb]
  /\ UNCHANGED <<pbVars, anVars, groups, cnVars>>

\* sync() without a length calls this._getMaxBufferLength(); a forEach that
\* stands at a Group calls the same method on it.
Descend ==
  /\ Running
  /\ Len(gLast.stack) < MaxStack
  /\ \/ /\ Top.fn = "sync" /\ ~Top.has
        /\ gLast' = [gLast EXCEPT
                       !.stack = Append(@, Activation("max", Top.g, FALSE, 0))]
     \/ /\ AtSource
        /\ groups[Top.g][Top.i].kind = "Group"
        /\ gLast' = [gLast EXCEPT
                       !.stack = Append(@, Activation(Top.fn, groups[Top.g][Top.i].id,
                                                  Top.has, Top.arg)),
                       !.calls = Append(@, <<Top.fn, groups[Top.g][Top.i]>>)]
  /\ UNCHANGED <<pbVars, anVars, groups, cnVars>>

\* A forEach that stands at a Playback calls its method, or reads its length.
AtPlayback ==
  /\ AtSource
  /\ groups[Top.g][Top.i].kind = "Playback"
  /\ LET p == groups[Top.g][Top.i].id
         calls == Append(gLast.calls, <<Top.fn, groups[Top.g][Top.i]>>)
         next == [gLast EXCEPT !.calls = calls,
                               !.stack = WithTop([Top EXCEPT !.i = @ + 1])]
         thrown == [gLast EXCEPT !.calls = calls, !.stack = <<>>,
                                 !.threw = TRUE, !.done = TRUE]
     IN CASE Top.fn = "max" ->
               /\ gLast' = [next EXCEPT !.stack = WithTop(
                              [Top EXCEPT !.i = @ + 1,
                                          !.acc = Max(BufferLength(pb[p].buffer), @)])]
               /\ pb' = pb
          [] Top.fn = "sync" ->
               IF CreateBufferThrows(Top.arg)
                 THEN gLast' = thrown /\ pb' = pb
                 ELSE /\ gLast' = next
                      /\ pb' = [pb EXCEPT ![p] = AdjustResult(@, Top.arg)]
          [] OTHER ->
               /\ gLast' = IF MethodThrows(Top.fn, pb[p], clock, Top.arg)
                              THEN thrown ELSE next
               /\ pb' = [pb EXCEPT ![p] = Method(Top.fn, @, clock, Top.arg)]
  /\ UNCHANGED <<clock, last, hist, loads, anVars, groups, cnVars>>

\* The forEach of the top frame is through: the method returns to its caller,
\* which takes the result of _getMaxBufferLength() or moves to its next source.
Return ==
  /\ Running
  /\ Top.fn = "sync" => Top.has
  /\ Top.i > Len(groups[Top.g])
  /\ LET n == Len(gLast.stack)
         caller == gLast.stack[n - 1]
         resumed == CASE caller.fn = "sync" /\ ~caller.has ->
                           [caller EXCEPT !.has = TRUE, !.arg = Top.acc]
                      [] caller.fn = "max" ->
                           [caller EXCEPT !.i = @ + 1, !.acc = Max(Top.acc, @)]
                      [] OTHER -> [caller EXCEPT !.i = @ + 1]
     IN gLast' = IF n = 1
                   THEN [gLast EXCEPT !.stack = <<>>, !.done = TRUE]
                   ELSE [gLast EXCEPT !.stack = [SubSeq(@, 1, n - 1) EXCEPT ![n - 1] = resumed]]
  /\ UNCHANGED <<pbVars, anVars, groups, cnVars>>

\* ------------------------------------------------------------ connect()

\* The Analyser that is a Euphony node of its own.
A(a) == [kind |-> "Analyser", id |-> a]

\* WebAudio nodes: the gain node and the analyser node of a Euphony node,
\* CONTEXT.destination, and the input a Playback does not have.
GainNode(e) == [node |-> "gain", of |-> e]

AnalyserNode(e) == [node |-> "analyser", of |-> e]

Destination == [node |-> "destination"]

Null == [node |-> "null"]

\* destination instanceof EuphonyNode
IsEuphonyNode(d) == "kind" \in DOMAIN d

\* The input and output fields of a Euphony node.
Input(e) ==
  CASE e.kind = "Playback" -> Null
    [] e.kind = "Group" -> GainNode(e)
    [] e.kind = "Analyser" -> AnalyserNode(e)

Output(e) == AnalyserNode(e)

\* The connections the constructor of a Controller makes.
ControllerEdges(e) ==
  { <<GainNode(e), AnalyserNode(e)>>, <<AnalyserNode(e), Destination>> }

\* The Group constructor had it left out source.output.disconnect().
GroupEdgesKeeping(edges, g, sources) ==
  edges \cup {<<Output(source), Input(g)>> : source \in sources}

\* source.output.disconnect() and source.output.connect(this.input) of the
\* Group constructor, for the sources of Group g.
GroupEdges(edges, g, sources) ==
  {c \in edges : \A source \in sources : c[1] # Output(source)}
    \cup {<<Output(source), Input(g)>> : source \in sources}

ConnectThrowsNever(destination) == FALSE

ConnectThrows(destination) ==
  IsEuphonyNode(destination) /\ Input(destination) = Null

ConnectResult(edges, e, destination) ==
  IF IsEuphonyNode(destination)
    THEN IF Input(destination) = Null
           THEN edges
           ELSE edges \cup {<<Output(e), Input(destination)>>}
    ELSE edges \cup {<<Output(e), destination>>}

\* e.connect(destination)
Connect(e, destination) ==
  /\ graph' = IF ConnectThrows(destination) THEN graph
                 ELSE ConnectResult(graph, e, destination)
  /\ cLast' = [op |-> "connect", e |-> e, destination |-> destination,
               threw |-> ConnectThrows(destination), pre |-> graph]
  /\ UNCHANGED <<pbVars, anVars, grVars>>

\* ------------------------------------------------- one Playback on its own

\* The Playback the calls are made on: the first one.
TheP == CHOOSE p \in Pids : \A q \in Pids : p <= q

\* A Playback as constructed, or as a completed load() of the largest file of
\* the model leaves it.
InitialPlaybacks ==
  {NewPlayback(loop) : loop \in BOOLEAN}
    \cup {DecodeResult(NewPlayback(loop), Decoded(MaxChannels, MaxLen)) :
            loop \in BOOLEAN}

Init ==
  /\ clock = 0
  /\ \E s \in InitialPlaybacks :
       pb = [p \in Pids |-> IF p = TheP THEN s ELSE NewPlayback(FALSE)]
  /\ last = NoCall
  /\ hist = [p \in Pids |-> NoHist]
  /\ loads = <<>>
  /\ an = Apart
  /\ anLast = Apart
  /\ fired = <<>>
  /\ groups = Apart
  /\ gLast = Apart
  /\ graph = Apart
  /\ cLast = Apart

Next ==
  \/ Tick
  \/ \E d \in Delays : Play(TheP, d)
  \/ \E d \in Delays : Pause(TheP, d)
  \/ \E d \in Delays : Stop(TheP, d)
  \/ \E n \in 0..MaxLen : AdjustBuffer(TheP, n)

Spec == Init /\ [][Next]_vars

\* ------------------------------------- one Playback, its loop flag, its loads

\* play, pause, stop, adjustBuffer (what Group.sync calls), one load() with
\* its completions and the loop setter on one Playback, at one engine time.
NextLoop ==
  \/ Play(TheP, 0)
  \/ Pause(TheP, 0)
  \/ Stop(TheP, 0)
  \/ \E n \in {1, MaxLen} : AdjustBuffer(TheP, n)
  \/ \E value \in BOOLEAN : SetLoop(TheP, value)
  \/ (loads = <<>> /\ Load(TheP))
  \/ \E l \in 1..MaxLoads, o \in FetchOutcomes : FetchSettles(l, o)
  \/ \E l \in 1..MaxLoads : DecodeSucceeds(l, Decoded(1, MaxLen))
  \/ \E l \in 1..MaxLoads : DecodeFails(l)

SpecLoop == Init /\ [][NextLoop]_vars

\* ------------------------------------------------- claims on scheduling

LastIs(op) == last.op = op /\ last.p = TheP

Now == pb[TheP]

\* The call last made was play(), its body ran, and it called start(when, offset).
PlayedWith(when, offset) ==
  /\ LastIs("play") /\ last.ran
  /\ last.engine = <<ECall("start", when, offset)>>

\* C2: after stop() on a Playback that is playing or paused, the next play()
\* passes offset 0 to start().
C2_StopForgetsOffset ==
  (LastIs("play") /\ last.ran /\ last.preHist.stop \in {"playing", "paused"})
    => PlayedWith(last.now + last.arg, 0)

\* C3: play(delay) on a paused Playback starts the source at clock + delay with
\* offset (pauseTime - startTime) mod length, clears pauseTime and records
\* startTime = clock + delay - offset; on a Playback never paused, or stopped
\* while playing, it uses offset 0 and records startTime = clock + delay.
C3_PlayOffsetAndStartTime ==
  (LastIs("play") /\ last.ran) =>
    LET adjustedDelay == last.now + last.arg
        offset == IF last.preHist.ran = "pause"
                    THEN JsRem(last.pre.pauseTime - last.pre.startTime,
                               BufferLength(last.pre.buffer))
                    ELSE 0
    IN (last.preHist.ran \in {"none", "stop"}
          \/ (last.preHist.ran = "pause" /\ last.preHist.stop = "none"))
         => /\ PlayedWith(adjustedDelay, offset)
            /\ Now.node.started
            /\ Now.node.when = adjustedDelay
            /\ Now.node.offset = offset
            /\ Now.pauseTime = 0
            /\ Now.startTime = adjustedDelay - offset

\* C4: play() on a Playback that is already playing changes none of its fields
\* (playing, startTime, pauseTime, buffer, source node) and makes no engine call.
C4_PlayWhilePlayingIsNoOp ==
  (LastIs("play") /\ last.pre.playing)
    => (Now = last.pre /\ last.engine = <<>>)

C4_Witness ==
  LastIs("play") /\ last.pre.playing /\ last.pre.node.started /\ last.now > 0

C6_PlaybackTimeZeroAfterStopPlay ==
  (LastIs("play") /\ last.ran /\ last.preHist.ran = "stop"
     /\ clock = last.now + last.arg)
    => GetPlaybackTime(Now, clock) = 0

\* The stop came after the Playback had played for a while.
C6_Witness ==
  /\ LastIs("play") /\ last.ran /\ last.preHist.ran = "stop"
  /\ last.arg > 0 /\ clock = last.now + last.arg
  /\ last.pre.startTime < last.now
  /\ BufferLength(Now.buffer) > 1
  /\ Now.playing

\* A source node that is ready to start for Playback fields s: never started,
\* around the buffer of s, and connected to the gain node.
ReadyToStart(s) ==
  ~s.node.started /\ s.node.buf = s.buffer /\ s.node.connected

\* C23: between calls, a Playback that is not playing holds a source node
\* that was never started, refers to the Playback's buffer and is connected
\* to the gain node; and the pause() or stop() call that scheduled the stop of
\* a node has itself put a fresh node in its place.
C23_ReadySourceWhenNotPlaying ==
  /\ \A p \in Pids : ~pb[p].playing => ReadyToStart(pb[p])
  /\ (last.op \in {"pause", "stop"} /\ last.ran /\ ~last.threw)
       => /\ last.pre.node.started
          /\ ReadyToStart(pb[last.p])

\* A pause() of a Playback whose node had started, on a buffer that
\* adjustBuffer() had replaced before.
C23_Witness ==
  /\ LastIs("pause") /\ last.ran /\ ~last.threw
  /\ last.pre.node.started
  /\ BufferLength(last.pre.buffer) > 1
  /\ ~pb[TheP].playing /\ ReadyToStart(pb[TheP])

\* What C8 says of adjustBuffer(length) on buffer `old`, giving `new`.
Adjusted(old, new, length) ==
  /\ BufferLength(new) = length
  /\ NumberOfChannels(new) = NumberOfChannels(old)
  /\ new.rate = old.rate
  /\ \A c \in 1..NumberOfChannels(old) :
       /\ Len(new.ch[c]) = length
       /\ \A k \in 1..length :
            new.ch[c][k] = IF k <= BufferLength(old) THEN old.ch[c][k] ELSE 0

\* C8 as stated: adjustBuffer(L) leaves a buffer of length L for any L >= 0,
\* same channels and rate, the common prefix kept and the rest silent.
C8_AdjustBufferAnyLength ==
  LastIs("adjustBuffer") => Adjusted(last.pre.buffer, Now.buffer, last.arg)

\* C8 amended: the same for any L >= 1; adjustBuffer(0) fails in createBuffer
\* and leaves the buffer and the source node as they were.
C8_AdjustBufferPositiveLength ==
  LastIs("adjustBuffer") =>
    IF last.arg >= 1
      THEN /\ Adjusted(last.pre.buffer, Now.buffer, last.arg)
           /\ ~last.threw
      ELSE /\ Now = last.pre
           /\ last.threw

\* A two-channel buffer of non-zero samples was made longer.
C8_Witness ==
  /\ LastIs("adjustBuffer")
  /\ last.arg > BufferLength(last.pre.buffer)
  /\ NumberOfChannels(last.pre.buffer) = 2
  /\ last.pre.buffer.ch[2][1] # 0

\* ---------------------------------------------------------- load() alone

InitLoad ==
  /\ clock = 0
  /\ \E loop \in BOOLEAN : pb = [p \in Pids |-> NewPlayback(loop)]
  /\ last = NoCall
  /\ hist = [p \in Pids |-> NoHist]
  /\ loads = <<>>
  /\ an = Apart
  /\ anLast = Apart
  /\ fired = <<>>
  /\ groups = Apart
  /\ gLast = Apart
  /\ graph = Apart
  /\ cLast = Apart

\* The Playbacks load() is called on: the first one and one other.
LoadPids == {p \in Pids : p <= TheP + 1}

NextLoad ==
  \/ \E p \in LoadPids : Load(p)
  \/ \E l \in 1..MaxLoads, o \in FetchOutcomes : FetchSettles(l, o)
  \/ \E l \in 1..MaxLoads, b \in DecodedBuffers : DecodeSucceeds(l, b)
  \/ \E l \in 1..MaxLoads : DecodeFails(l)

SpecLoad == InitLoad /\ [][NextLoad]_vars

\* ------------------------------------------------------ an Analyser alone

InitAnalyser ==
  /\ clock = 0
  /\ pb = Apart
  /\ last = Apart
  /\ hist = Apart
  /\ loads = Apart
  /\ \E f \in FftSizes, n \in BandCounts, t \in Thresholds :
       an = NewAnalyser(f, n, t)
  /\ anLast = [op |-> "none", n |-> 0, arg |-> 0, pre |-> an, ran |-> <<>>,
               threw |-> FALSE]
  /\ fired = <<>>
  /\ groups = Apart
  /\ gLast = Apart
  /\ graph = Apart
  /\ cLast = Apart

NextAnalyser ==
  \E raw \in Frames(an) : UpdateFrequency(raw)

SpecAnalyser == InitAnalyser /\ [][NextAnalyser]_vars

\* ------------------------------ an Analyser, its data and its array sizes

\* The frequency frames of this specification: silence, the amplitude of the
\* threshold, full scale.
FewFrames(a) ==
  {Frame(FrequencyBinCount(a), lp[1], lp[2], 0) :
     lp \in {<<0, 0>>, <<51, 51>>, <<255, 255>>}}

InitData ==
  /\ clock = 0
  /\ pb = Apart
  /\ last = Apart
  /\ hist = Apart
  /\ loads = Apart
  /\ an = NewAnalyser(32, 3, 20)
  /\ anLast = [op |-> "none", n |-> 0, arg |-> 0, pre |-> an, ran |-> <<>>,
               threw |-> FALSE]
  /\ fired = <<>>
  /\ groups = Apart
  /\ gLast = Apart
  /\ graph = Apart
  /\ cLast = Apart

NextData ==
  \/ \E raw \in FewFrames(an) : anLast.n < MaxDataUpdates /\ UpdateFrequency(raw)
  \/ \E raw \in WaveFrames(an) : anLast.n < MaxDataUpdates /\ UpdateWaveform(raw)
  \/ \E value \in {16, 32, 64} : SetFftSize(value)
  \/ \E count \in {0, 1, 3, 4} : SetNumberOfBands(count)

SpecData == InitData /\ [][NextData]_vars

\* --------------------------------------- an Analyser whose threshold moves

\* What the threshold is set to: out of range on both sides, the bounds, and
\* levels between the amplitudes of the frames.
ThresholdValues == {-1, 0, 20, 30, 101}

InitSignal ==
  /\ clock = 0
  /\ pb = Apart
  /\ last = Apart
  /\ hist = Apart
  /\ loads = Apart
  /\ \E t \in Thresholds : an = NewAnalyser(32, 3, t)
  /\ anLast = [op |-> "none", n |-> 0, arg |-> 0, pre |-> an, ran |-> <<>>,
               threw |-> FALSE]
  /\ fired = <<>>
  /\ groups = Apart
  /\ gLast = Apart
  /\ graph = Apart
  /\ cLast = Apart

NextSignal ==
  \/ \E raw \in FewFrames(an) : UpdateFrequency(raw)
  \/ \E value \in ThresholdValues : SetThreshold(value)

SpecSignal == InitSignal /\ [][NextSignal]_vars

\* ------------------------------------------- an Analyser and its settings

\* The values given to the fftSize setter.
FftSizeValues == {16, 32, 48, 128, 65536}

\* The values given to the decibel setters.
DecibelValues == {-100, -30, -10}

\* The values given to threshold and smoothingTimeConstant, in hundredths.
UnitValues == {-1, 0, 100, 101}

\* The values given to the numberOfBands setter.
BandCountValues == {0, 1, 3, 4, 5}

\* The options with every field given.
FullOptions ==
  [threshold : UnitValues, numberOfBands : {3, 5}, fftSize : {16, 32, 128, 256},
   minDecibels : {-100, -30}, maxDecibels : {-30, -10},
   smoothingTimeConstant : UnitValues]

\* The fields an options object of the model gives: none, one, the decibel
\* range, the window with the band count, or all of them.
OptionFields ==
  {{}, {"fftSize"}, {"threshold"}, {"smoothingTimeConstant"}, {"numberOfBands"},
   {"minDecibels"}, {"maxDecibels"}, {"minDecibels", "maxDecibels"},
   {"fftSize", "numberOfBands"}, DOMAIN AnalyserOptionsDefaults}

Options == {[f \in D |-> o[f]] : o \in FullOptions, D \in OptionFields}

\* The options that give a window of at most 128 samples and the band count.
SmallOptions ==
  {o \in Options : /\ {"fftSize", "numberOfBands"} \subseteq DOMAIN o
                   /\ o.fftSize <= 128 /\ o.numberOfBands = 3}

InitSettings ==
  /\ clock = 0
  /\ pb = Apart
  /\ last = Apart
  /\ hist = Apart
  /\ loads = Apart
  /\ an = Unbuilt
  /\ anLast = [op |-> "none", n |-> 0, arg |-> 0, pre |-> Unbuilt, ran |-> <<>>,
               threw |-> FALSE]
  /\ fired = <<>>
  /\ groups = Apart
  /\ gLast = Apart
  /\ graph = Apart
  /\ cLast = Apart

\* new Analyser(options), once, and then the setters on it.
NextSettings ==
  \/ anLast.op = "none" /\ \E options \in SmallOptions : Construct(options)
  \/ \E value \in FftSizeValues : SetFftSize(value)
  \/ \E value \in DecibelValues : SetMinDecibels(value)
  \/ \E value \in DecibelValues : SetMaxDecibels(value)
  \/ \E value \in UnitValues : SetSmoothingTimeConstant(value)
  \/ \E value \in UnitValues : SetThreshold(value)
  \/ \E count \in BandCountValues : SetNumberOfBands(count)

SpecSettings == InitSettings /\ [][NextSettings]_vars

\* new Analyser(options) alone, once, for every options object of the model.
NextConstruct ==
  anLast.op = "none" /\ \E options \in Options : Construct(options)

SpecConstruct == InitSettings /\ [][NextConstruct]_vars

\* --------------------------------------------------- claims on the Analyser

Trees ==
  { [g \in Gids |-> CASE g = 1 -> <<P(1), P(2), P(3)>> [] OTHER -> <<>>],
    [g \in Gids |-> CASE g = 1 -> <<P(1), G(2)>> [] g = 2 -> <<P(2), P(3)>>
                      [] OTHER -> <<>>],
    [g \in Gids |-> CASE g = 1 -> <<G(2), P(1), P(2)>> [] g = 2 -> <<P(3)>>
                      [] OTHER -> <<>>],
    [g \in Gids |-> CASE g = 1 -> <<P(1), G(2), P(3)>> [] g = 2 -> <<P(2), G(3)>>
                      [] OTHER -> <<>>],
    [g \in Gids |-> CASE g = 1 -> <<G(2), P(1)>> [] g = 2 -> <<G(3), P(2)>>
                      [] g = 3 -> <<P(3)>> [] OTHER -> <<>>] }

\* Playback p after it loaded a file of n frames; the channel counts differ
\* from one Playback to the next.
Leaf(p, n) ==
  DecodeResult(NewPlayback(FALSE), Decoded(((p - 1) % MaxChannels) + 1, n))

InitGroup ==
  /\ clock = 0
  /\ \E n \in [1..3 -> 1..MaxLeafLen] :
       pb = [p \in Pids |-> IF p <= 3 THEN Leaf(p, n[p]) ELSE NewPlayback(FALSE)]
  /\ last = NoCall
  /\ hist = [p \in Pids |-> NoHist]
  /\ loads = <<>>
  /\ an = Apart
  /\ anLast = Apart
  /\ fired = <<>>
  /\ groups \in Trees
  /\ gLast = NoGroupCall
  /\ graph = Apart
  /\ cLast = Apart

\* The Groups of the tree: the root and every Group in a sources list.
InTree(g) ==
  g = 1 \/ \E h \in Gids : \E i \in 1..Len(groups[h]) : groups[h][i] = G(g)

NextGroup ==
  \/ \E g \in Gids : InTree(g) /\ Sync(g, FALSE, 0)
  \/ \E g \in Gids, n \in 0..MaxLeafLen : InTree(g) /\ Sync(g, TRUE, n)

SpecGroup == InitGroup /\ [][NextGroup]_vars

\* ------------------------------------- Groups that play, pause and stop

\* The trees of the model over Playbacks that loaded two frames each, the
\* engine clock at 0.
InitBroadcast ==
  /\ clock = 0
  /\ pb = [p \in Pids |-> IF p <= 3 THEN Leaf(p, 2) ELSE NewPlayback(FALSE)]
  /\ last = NoCall
  /\ hist = [p \in Pids |-> NoHist]
  /\ loads = <<>>
  /\ an = Apart
  /\ anLast = Apart
  /\ fired = <<>>
  /\ groups \in Trees
  /\ gLast = [op |-> "none", n |-> 0]
  /\ graph = Apart
  /\ cLast = Apart

NextBroadcast ==
  \/ Tick
  \/ \E g \in Gids, d \in Delays : InTree(g) /\ Broadcast(g, "play", d)
  \/ \E g \in Gids, d \in Delays : InTree(g) /\ Broadcast(g, "pause", d)
  \/ \E g \in Gids, d \in Delays : InTree(g) /\ Broadcast(g, "stop", d)

SpecBroadcast == InitBroadcast /\ [][NextBroadcast]_vars

\* ------------------------------------------- Groups made one after another

InitHeap ==
  /\ clock = 0
  /\ pb = [p \in Pids |-> IF p <= 3 THEN Leaf(p, p) ELSE NewPlayback(FALSE)]
  /\ last = NoCall
  /\ hist = [p \in Pids |-> NoHist]
  /\ loads = <<>>
  /\ an = Apart
  /\ anLast = Apart
  /\ fired = <<>>
  /\ groups = [arrays |-> << <<>> >>, objs |-> <<>>]
  /\ gLast = [op |-> "none", n |-> 0, g |-> 0, pre |-> groups, calls |-> <<>>]
  /\ graph = Apart
  /\ cLast = Apart

NextHeap ==
  \/ NewGroup(FALSE, <<>>)
  \/ \E sources \in {<<>>, <<P(3)>>} : NewGroup(TRUE, sources)
  \/ \E g \in 1..MaxNewGroups, source \in {P(1), P(2)} : PushSource(g, source)
  \/ \E g \in 1..MaxNewGroups, op \in {"play", "pause", "stop"} : HeapBroadcast(g, op)
  \/ \E g \in 1..MaxNewGroups : HeapSync(g)

SpecHeap == InitHeap /\ [][NextHeap]_vars

\* ------------------------------------------- Group calls, frame by frame

\* Sources lists with a Group below itself: what g.sources.push(g), or a push
\* of an enclosing Group, makes of a tree.
Cycles ==
  { [g \in Gids |-> CASE g = 1 -> <<P(1), G(1)>> [] OTHER -> <<>>],
    [g \in Gids |-> CASE g = 1 -> <<P(1), G(2)>> [] g = 2 -> <<P(2), G(1), P(3)>>
                      [] OTHER -> <<>>] }

InitWalk ==
  /\ clock = 0
  /\ pb = [p \in Pids |-> IF p <= 3 THEN Leaf(p, p) ELSE NewPlayback(FALSE)]
  /\ last = NoCall
  /\ hist = [p \in Pids |-> NoHist]
  /\ loads = <<>>
  /\ an = Apart
  /\ anLast = Apart
  /\ fired = <<>>
  /\ groups \in Trees \cup Cycles
  /\ gLast = [op |-> "none", n |-> 0]
  /\ graph = Apart
  /\ cLast = Apart

NextWalk ==
  \/ \E g \in Gids, fn \in {"play", "pause", "stop"}, d \in Delays :
        InTree(g) /\ Enter(g, fn, TRUE, d)
  \/ \E g \in Gids : InTree(g) /\ Enter(g, "sync", FALSE, 0)
  \/ \E g \in Gids, length \in {0, 2} : InTree(g) /\ Enter(g, "sync", TRUE, length)
  \/ Descend
  \/ AtPlayback
  \/ Return

SpecWalk == InitWalk /\ [][NextWalk]_vars

\* The engine runs a call that is in progress to its end.
SpecWalkFair == SpecWalk /\ WF_vars(Descend \/ AtPlayback \/ Return)

\* ------------------------------------------------- connecting Euphony nodes

\* Two Playbacks, a Group made of the second one, and an Analyser.
EuphonyNodes == {P(1), P(2), G(1), A(1)}

\* What connect() is given: a Euphony node or a plain WebAudio node.
Destinations == EuphonyNodes \cup {Destination}

InitConnect ==
  /\ clock = Apart
  /\ pb = Apart
  /\ last = Apart
  /\ hist = Apart
  /\ loads = Apart
  /\ an = Apart
  /\ anLast = Apart
  /\ fired = Apart
  /\ groups = Apart
  /\ gLast = Apart
  /\ graph = GroupEdges(ControllerEdges(P(1)) \cup ControllerEdges(P(2))
                          \cup ControllerEdges(G(1)), G(1), {P(2)})
  /\ cLast = [op |-> "none"]

NextConnect ==
  \E e \in EuphonyNodes, destination \in Destinations : Connect(e, destination)

SpecConnect == InitConnect /\ [][NextConnect]_vars

\* ------------------------------------------- Groups built over sources

\* The Groups a program constructs, in this order.
WiredGids == 1..2

\* The Controllers there are to pass as sources: two Playbacks and the
\* Groups constructed so far.
Constructed == {P(1), P(2)} \cup {G(g) : g \in {h \in WiredGids : groups[h].built}}

\* The sources options: arrays of up to MaxSources Controllers.
SourceLists(S) == UNION {[1..n -> S] : n \in 0..MaxSources}

\* new Group({ sources }): the Controller constructor wires the Group's gain
\* node to its Analyser and the Analyser to the destination, then the Group
\* constructor stores the array and moves every source's output to its input.
ConstructGroup(g, sources) ==
  /\ ~groups[g].built
  /\ \A h \in WiredGids : h < g => groups[h].built
  /\ groups' = [groups EXCEPT ![g] = [built |-> TRUE, sources |-> sources]]
  /\ graph' = GroupEdges(graph \cup ControllerEdges(G(g)), G(g),
                         {sources[i] : i \in 1..Len(sources)})
  /\ cLast' = [op |-> "Group", g |-> g, sources |-> sources, pre |-> graph,
               was |-> groups]
  /\ UNCHANGED <<pbVars, anVars, gLast>>

InitWired ==
  /\ clock = Apart
  /\ pb = Apart
  /\ last = Apart
  /\ hist = Apart
  /\ loads = Apart
  /\ an = Apart
  /\ anLast = Apart
  /\ fired = Apart
  /\ groups = [g \in WiredGids |-> [built |-> FALSE, sources |-> <<>>]]
  /\ gLast = Apart
  /\ graph = ControllerEdges(P(1)) \cup ControllerEdges(P(2))
  /\ cLast = [op |-> "none"]

NextWired ==
  \/ \E g \in WiredGids : \E sources \in SourceLists(Constructed) :
       ConstructGroup(g, sources)
  \/ \E destination \in Constructed \cup {Destination} :
       Connect(P(1), destination)

SpecWired == InitWired /\ [][NextWired]_vars

\* C22: connect(destination) throws when the destination is a Euphony node
\* without an input, which is what every Playback is, and then the audio
\* graph is as it was; for every other destination the graph gains the
\* connection from this node's output to the destination's input (to the
\* destination itself when it is a plain WebAudio node), and nothing else.
C22_ConnectFailsOnSourceNode ==
  cLast.op = "connect" =>
    LET e == cLast.e
        d == cLast.destination
    IN IF d \in {P(1), P(2)}
         THEN cLast.threw /\ graph = cLast.pre
         ELSE /\ ~cLast.threw
              /\ graph = cLast.pre \cup
                   {<<AnalyserNode(e), CASE d = G(1) -> GainNode(d)
                                         [] d = A(1) -> AnalyserNode(d)
                                         [] OTHER -> d>>}

\* A connect() to a Playback on a graph that earlier connect() calls extended.
C22_Witness ==
  /\ cLast.op = "connect"
  /\ cLast.destination = P(1)
  /\ cLast.threw
  /\ <<AnalyserNode(P(1)), GainNode(G(1))>> \in graph
  /\ graph = cLast.pre

\* ------------------------------------------------------- claims on Groups

\* The Playbacks below Group g, at any depth.
RECURSIVE LeavesOf(_)
LeavesOf(g) ==
  UNION { IF groups[g][i].kind = "Playback"
            THEN {groups[g][i].id}
            ELSE LeavesOf(groups[g][i].id) : i \in 1..Len(groups[g]) }

LengthBefore(p) == BufferLength(gLast.pre[p].buffer)

LengthNow(p) == BufferLength(pb[p].buffer)

Longest(S) == IF S = {} THEN 0 ELSE SetMax({LengthBefore(p) : p \in S})

\* C7 as stated: after sync() every Playback below the Group has the largest
\* length any of them had before; after sync(L) every one has length L.
C7_SyncEqualisesLengths ==
  gLast.op = "sync" =>
    \A p \in LeavesOf(gLast.g) :
      LengthNow(p) = IF gLast.forced THEN gLast.arg ELSE Longest(LeavesOf(gLast.g))

\* C7 amended: the same with the forced length L >= 1; sync(0) fails in the
\* first adjustBuffer() and changes no Playback.
C7_SyncEqualisesLengthsPositive ==
  gLast.op = "sync" =>
    IF gLast.forced /\ gLast.arg < 1 /\ LeavesOf(gLast.g) # {}
      THEN pb = gLast.pre /\ gLast.threw
      ELSE /\ ~gLast.threw
           /\ \A p \in LeavesOf(gLast.g) :
                LengthNow(p) =
                  IF gLast.forced THEN gLast.arg ELSE Longest(LeavesOf(gLast.g))
           /\ \A p \in Pids \ LeavesOf(gLast.g) : pb[p] = gLast.pre[p]

\* sync() on lengths 1, 3, 2 with the longest one nested one level down.
C7_Witness ==
  /\ gLast.op = "sync" /\ ~gLast.forced /\ gLast.g = 1
  /\ groups[1] = <<P(1), G(2)>>
  /\ LengthBefore(1) = 1 /\ LengthBefore(2) = 3 /\ LengthBefore(3) = 2
  /\ \A p \in 1..3 : LengthNow(p) = 3

\* ------------------------------------------------------- claims on load()

Position(events, e) ==
  IF \E i \in 1..Len(events) : events[i] = e
    THEN CHOOSE i \in 1..Len(events) : events[i] = e
    ELSE 0

Failed(ld) == ld.state \in {"fetchFailed", "decodeFailed"}

\* C9: every failing load() (transport error, response not ok, decode failure)
\* runs onError exactly once and then rejects the promise it returned.
C9_FailureCallsOnErrorAndRejects ==
  \A l \in 1..Len(loads) :
    Failed(loads[l]) =>
      /\ loads[l].onError = 1
      /\ loads[l].promise = "rejected"
      /\ Position(loads[l].events, "onError") < Position(loads[l].events, "rejected")

\* C10: on a successful load() the promise is fulfilled only after the buffer
\* was swapped in, the source rebuilt and onLoad run, so that a continuation
\* chained on load() finds the loaded buffer.
C10_FulfilledAfterOnLoad ==
  \A l \in 1..Len(loads) :
    loads[l].promise = "fulfilled" =>
      /\ loads[l].events = <<"decodeAudioData", "swap", "replaceSource", "onLoad", "fulfilled">>
      /\ loads[l].thenSaw = loads[l].decoded

\* C11: with two load() calls in flight on one Playback both run to their end,
\* and the Playback holds the buffer of the load whose decode completed last,
\* whichever was issued first: a completing decode swaps its own buffer in and
\* runs its onLoad once, and no other step of any load touches the Playback.
C11_LastDecodeWins ==
  /\ last.op = "decodeSucceeds" =>
       /\ pb[last.p].buffer = loads[last.arg].decoded
       /\ pb[last.p].node.buf = loads[last.arg].decoded
       /\ loads[last.arg].state = "loaded"
  /\ last.op \in {"load", "fetchSettles", "decodeFails"} => pb[last.p] = last.pre
  /\ \A l \in 1..Len(loads) :
       /\ loads[l].state = "loaded" => loads[l].onLoad = 1
       /\ loads[l].state \in {"fetching", "decoding"} =>
            (loads[l].onLoad = 0 /\ loads[l].onError = 0)

\* Two loads on one Playback; the one issued second was decoded first, the one
\* issued first was decoded last, to a different buffer, which is the one held.
C11_Witness ==
  /\ Len(loads) >= 2
  /\ loads[1].p = TheP /\ loads[2].p = TheP
  /\ last.op = "decodeSucceeds" /\ last.arg = 1
  /\ loads[2].state = "loaded"
  /\ last.pre.buffer = loads[2].decoded
  /\ loads[1].decoded # loads[2].decoded
  /\ pb[TheP].buffer = loads[1].decoded

\* ------------------------------------------ claims on the Analyser's settings

UnitRange == 0..100

PowersOfTwo == {Power(2, k) : k \in 5..15}

\* C12: minDecibels < maxDecibels in every Analyser; setting minDecibels to
\* maxDecibels or more, or maxDecibels to minDecibels or less, throws and
\* leaves the Analyser as it was.
C12_DecibelRangeKept ==
  /\ Built(an) => an.minDecibels < an.maxDecibels
  /\ (anLast.op = "minDecibels" /\ anLast.arg >= anLast.pre.maxDecibels)
       => (anLast.threw /\ an = anLast.pre)
  /\ (anLast.op = "maxDecibels" /\ anLast.arg <= anLast.pre.minDecibels)
       => (anLast.threw /\ an = anLast.pre)

\* minDecibels was set to the very value of maxDecibels.
C12_Witness ==
  /\ anLast.op = "minDecibels" /\ anLast.arg = anLast.pre.maxDecibels
  /\ anLast.threw /\ an.minDecibels < anLast.arg

\* Integers around every power of two up to 2^17, and between them.
FftSizeProbes ==
  UNION {{Power(2, k) - 1, Power(2, k), Power(2, k) + 1, 3 * Power(2, k)} : k \in 0..17}

\* The check of the fftSize setter passes exactly the powers of two from 2^5
\* to 2^15 among the probes.
FftSizeCheckOnProbes ==
  \A value \in FftSizeProbes : FftSizeThrows(value) = (value \notin PowersOfTwo)

\* C13: setting fftSize to an integer succeeds exactly for 32, 64, ..., 32768
\* and throws at once for any other; when it throws the Analyser (fftSize,
\* frequencyBinCount, the frequency and waveform arrays) is as it was, and
\* when it succeeds the arrays have the new lengths.
C13_FftSizePowersOfTwo ==
  /\ FftSizeCheckOnProbes
  /\ anLast.op = "fftSize" =>
       /\ anLast.threw = (anLast.arg \notin PowersOfTwo)
       /\ anLast.threw => an = anLast.pre
       /\ ~anLast.threw =>
            /\ an.fftSize = anLast.arg
            /\ FrequencyBinCount(an) * 2 = anLast.arg
            /\ Len(an.frequency) = FrequencyBinCount(an)
            /\ Len(an.waveform) = anLast.arg

\* fftSize 128 was asked to become 48, in range but no power of two.
C13_Witness ==
  /\ anLast.op = "fftSize" /\ anLast.arg = 48 /\ anLast.threw
  /\ an.fftSize = 128 /\ Len(an.waveform) = 128

\* C14: threshold and smoothingTimeConstant are within [0, 1] in every
\* Analyser; a value outside it, given to the setter or in the constructor's
\* options, throws and is never stored.
C14_UnitRangeKept ==
  /\ Built(an) => (an.threshold \in UnitRange /\ an.smoothingTimeConstant \in UnitRange)
  /\ (anLast.op \in {"threshold", "smoothingTimeConstant"} /\ anLast.arg \notin UnitRange)
       => (anLast.threw /\ an = anLast.pre)
  /\ (anLast.op = "construct"
        /\ \E f \in {"threshold", "smoothingTimeConstant"} :
             f \in DOMAIN anLast.arg /\ anLast.arg[f] \notin UnitRange)
       => anLast.threw

\* C15: 1 <= numberOfBands <= ln(fftSize) in every Analyser, whatever was
\* assigned to numberOfBands and fftSize before.
C15_BandCountWithinLog ==
  Built(an) => (an.numberOfBands >= 1 /\ ~OverLog(an.numberOfBands, an.fftSize))

\* C16: new Analyser({fftSize}) with a power of two from 32 to 32768 and
\* nothing else succeeds, with frequencyBinCount and the length of frequency
\* fftSize / 2 and the length of waveform fftSize.
C16_ConstructsForEveryFftSize ==
  (anLast.op = "construct" /\ DOMAIN anLast.arg = {"fftSize"}
     /\ anLast.arg.fftSize \in PowersOfTwo)
    => /\ ~anLast.threw
       /\ Built(an)
       /\ FrequencyBinCount(an) * 2 = anLast.arg.fftSize
       /\ Len(an.frequency) * 2 = anLast.arg.fftSize
       /\ Len(an.waveform) = anLast.arg.fftSize

\* The rules C17 names, on the fields the options give and the defaults of
\* the others; the band count is taken to be within its rule as well.
ValidOptions(options) ==
  LET o == UpdatedOptions(options)
  IN /\ o.fftSize \in PowersOfTwo
     /\ o.minDecibels < o.maxDecibels
     /\ o.smoothingTimeConstant \in UnitRange
     /\ o.threshold \in UnitRange
     /\ ~NumberOfBandsThrows(o, o.numberOfBands)

\* C17: the constructor succeeds on every options object whose fields satisfy
\* the rules, and then each getter gives the value supplied, or the default
\* of a field left out.
C17_ValidOptionsConstruct ==
  (anLast.op = "construct" /\ ValidOptions(anLast.arg))
    => /\ ~anLast.threw
       /\ Built(an)
       /\ \A f \in {"threshold", "fftSize", "minDecibels", "maxDecibels",
                     "smoothingTimeConstant"} :
            an[f] = UpdatedOptions(anLast.arg)[f]

\* ------------------------------------------ claims on the frequency bands

\* The band C19 gives bin i: the first band k < numberOfBands - 1 whose
\* boundary is above i, the final band when there is none.
ClaimedBand(a, i) ==
  IF \E k \in 0..(a.numberOfBands - 2) : a.bandIntervals[k + 1] > i
    THEN CHOOSE k \in 0..(a.numberOfBands - 2) :
           /\ a.bandIntervals[k + 1] > i
           /\ \A h \in 0..(k - 1) : a.bandIntervals[h + 1] <= i
    ELSE a.numberOfBands - 1

\* C18: bands has numberOfBands entries and the lookup of updateFrequency()
\* gives every bin from 0 to frequencyBinCount - 1 a band from 0 to
\* numberOfBands - 1.
C18_EveryBinHasABand ==
  /\ Len(an.bands) = an.numberOfBands
  /\ \A i \in 0..(FrequencyBinCount(an) - 1) :
       FindIndex(an.bandIntervals, i) \in 0..(an.numberOfBands - 1)

\* C19: after updateFrequency() every band holds the largest value among its
\* bins, the final band having all the bins at or above the last boundary,
\* so that it is not 0 when one of those bins is not 0.
C19_BandIsMaxOfItsBins ==
  anLast.op = "updateFrequency" =>
    \A b \in 0..(an.numberOfBands - 1) :
      LET mine == {an.frequency[i + 1] : i \in {j \in 0..(FrequencyBinCount(an) - 1) :
                                                  ClaimedBand(an, j) = b}}
      IN an.bands[b + 1] = IF mine = {} THEN 0 ELSE SetMax(mine)

\* C20: updateFrequency() called again on the raw bytes of the call before
\* it leaves frequency, amplitude, bands and signal as that call left them
\* and runs no callback.
C20_UpdateFrequencyIdempotent ==
  (anLast.op = "updateFrequency" /\ anLast.n >= 2
     /\ anLast.arg = anLast.pre.frequencyBuffer)
    => /\ an.frequency = anLast.pre.frequency
       /\ an.amplitude = anLast.pre.amplitude
       /\ an.bands = anLast.pre.bands
       /\ an.signal = anLast.pre.signal
       /\ anLast.ran = <<>>

\* The first call raised the signal and ran onSignal; the second call, on the
\* same bytes, ran nothing.
C20_Witness ==
  /\ anLast.op = "updateFrequency" /\ anLast.n = 2
  /\ anLast.arg = anLast.pre.frequencyBuffer
  /\ an.signal /\ fired = <<"onSignal">>
  /\ \E b \in 1..Len(an.bands) : an.bands[b] > 0

\* ----------------------------------------- claims on play, pause and stop of Groups

\* The sources below Group g in the order a broadcast reaches them: every
\* source of g in insertion order, the sources of a nested Group right after it.
RECURSIVE VisitFrom(_, _)
VisitFrom(g, i) ==
  IF i > Len(groups[g])
    THEN <<>>
    ELSE <<groups[g][i]>>
           \o (IF groups[g][i].kind = "Group" THEN VisitFrom(groups[g][i].id, 1) ELSE <<>>)
           \o VisitFrom(g, i + 1)

\* C21: Group.play(d), pause(d) and stop(d) call the same method with the same
\* delay once on every source, in insertion order, and so once on every
\* Playback below the Group; after play() each of those Playbacks is playing,
\* after pause() and stop() none is.
C21_BroadcastReachesEveryPlayback ==
  gLast.op \in {"play", "pause", "stop"} =>
    /\ gLast.calls = VisitFrom(gLast.g, 1)
    /\ \A p \in LeavesOf(gLast.g) :
         /\ pb[p] = Method(gLast.op, gLast.pre[p], gLast.now, gLast.arg)
         /\ pb[p].playing = (gLast.op = "play")

\* ------------------------------------------------- claims on the signal

\* C24: after every updateFrequency(), signal is true exactly when the
\* amplitude (sum / bins / 255) is greater than the threshold (hundredths);
\* with the amplitude equal to the threshold, signal is false.
C24_SignalIffOverThreshold ==
  anLast.op = "updateFrequency" =>
    (an.signal <=> an.amplitude.sum * 100 > an.threshold * an.amplitude.bins * 255)

\* ------------------------------------------------ claims on termination

\* The Groups at most k levels below the Groups of S, and S.
RECURSIVE GroupsBelow(_, _)
GroupsBelow(S, k) ==
  IF k = 0
    THEN S
    ELSE GroupsBelow(S \cup {h \in Gids : \E g \in S : \E i \in 1..Len(groups[g]) :
                                           groups[g][i] = G(h)}, k - 1)

\* Group g reaches itself, or a Group that does, through sources lists.
Cyclic(g) ==
  \E h \in GroupsBelow({g}, NumGroups) :
     \E i \in 1..Len(groups[h]) :
        groups[h][i].kind = "Group" /\ h \in GroupsBelow({groups[h][i].id}, NumGroups)

\* The visits of one pass of method fn over the sources below Group g.
Pass(fn, g) == [k \in 1..Len(VisitFrom(g, 1)) |-> <<fn, VisitFrom(g, 1)[k]>>]

\* A call that ran to its end without a throw went once over every source
\* below its Group: sync() once to find the length and once to set it.
VisitedOnce ==
  gLast.calls = IF gLast.op = "sync" /\ ~gLast.forced
                  THEN Pass("max", gLast.g) \o Pass("sync", gLast.g)
                  ELSE Pass(gLast.op, gLast.g)

C25_WitnessCycle ==
  /\ gLast.op = "play" /\ Cyclic(gLast.g) /\ ~gLast.done
  /\ Len(gLast.stack) = MaxStack
  /\ Len(gLast.calls) >= 2 * (MaxStack - 1)

\* ------------------------------------------- claims on the derived arrays

\* C26: the stored band intervals are those of calcBandIntervals for the
\* fftSize and numberOfBands the Analyser has now: both setters, when they
\* succeed, leave them recomputed.
C26_BandIntervalsCurrent ==
  Built(an) => an.bandIntervals = CalcBandIntervals(an.fftSize, an.numberOfBands)

AllZero(seq) == \A i \in 1..Len(seq) : seq[i] = 0

\* C27: a successful fftSize assignment leaves frequency with fftSize / 2
\* zeros and waveform with fftSize zeros; a successful numberOfBands
\* assignment leaves bands with numberOfBands zeros; and in every state
\* frequency, waveform and bands have the lengths fftSize / 2, fftSize and
\* numberOfBands.
C27_ArraysSizedAndCleared ==
  /\ Len(an.frequency) * 2 = an.fftSize
  /\ Len(an.waveform) = an.fftSize
  /\ Len(an.bands) = an.numberOfBands
  /\ (anLast.op = "fftSize" /\ ~anLast.threw)
       => an.fftSize = anLast.arg /\ AllZero(an.frequency) /\ AllZero(an.waveform)
  /\ (anLast.op = "numberOfBands" /\ ~anLast.threw)
       => an.numberOfBands = anLast.arg /\ AllZero(an.bands)

\* An fftSize assignment to another size on an Analyser that held frequency
\* and waveform data.
C27_Witness ==
  /\ anLast.op = "fftSize" /\ ~anLast.threw
  /\ anLast.arg # anLast.pre.fftSize
  /\ ~AllZero(anLast.pre.frequency) /\ ~AllZero(anLast.pre.waveform)
  /\ AllZero(an.frequency) /\ AllZero(an.waveform)

\* ---------------------------------------------------- claims on the waveform

NotWaveform(a) == [f \in DOMAIN a \ {"waveform", "waveformBuffer"} |-> a[f]]

\* C29: updateWaveform() changes the waveform data only: frequency, bands,
\* amplitude and signal are as before and no callback runs; updateFrequency()
\* leaves the waveform data as it was.
C29_WaveformAndFrequencyApart ==
  /\ anLast.op = "updateWaveform" =>
       /\ NotWaveform(an) = NotWaveform(anLast.pre)
       /\ anLast.ran = <<>>
  /\ anLast.op = "updateFrequency" =>
       /\ an.waveform = anLast.pre.waveform
       /\ an.waveformBuffer = anLast.pre.waveformBuffer

\* An updateWaveform() that changed the waveform of an Analyser whose signal
\* is up.
C29_Witness ==
  /\ anLast.op = "updateWaveform"
  /\ an.signal /\ ~AllZero(an.frequency)
  /\ an.waveform # anLast.pre.waveform

\* An updateFrequency() that raised the signal of an Analyser that holds a
\* waveform.
C29_WitnessFrequency ==
  /\ anLast.op = "updateFrequency"
  /\ anLast.ran # <<>>
  /\ ~AllZero(an.waveform)

\* ------------------------------------------------ claims on loads side by side

\* C30: a step of a load() on one Playback (the call, the settling of its
\* fetch, the success or failure of its decode) leaves the fields of every
\* other Playback (buffer, source node, playing, startTime, pauseTime) as they
\* were and runs no callback of a load() on another Playback.
C30_LoadsOnDifferentPlaybacksApart ==
  [][\A q \in Pids \ {last'.p} :
       /\ pb'[q] = pb[q]
       /\ \A l \in 1..Len(loads) : loads[l].p = q => loads'[l] = loads[l]]_vars

\* A decode completes for one Playback after the load() issued later on
\* another Playback has already swapped its buffer in.
C30_Witness ==
  /\ last.op = "decodeSucceeds"
  /\ \E l \in 1..Len(loads) :
       /\ loads[l].p # last.p
       /\ l > last.arg
       /\ loads[l].state = "loaded"
       /\ pb[loads[l].p].buffer = loads[l].decoded
       /\ pb[loads[l].p].buffer # pb[last.p].buffer

\* ------------------------------------------------ claims on loads that fail

\* C31: a load() whose fetch fails (transport error, or a response that is
\* not ok) leaves buffer, source node with its loop flag, playing, startTime
\* and pauseTime of the Playback as the call and its failure found them, and
\* onLoad of that load never runs.
C31_FailedFetchChangesNothing ==
  /\ last.op = "load" => pb[last.p] = last.pre
  /\ (last.op = "fetchSettles" /\ last.threw) =>
       /\ pb[last.p] = last.pre
       /\ loads[last.arg].state = "fetchFailed"
  /\ \A l \in 1..Len(loads) :
       loads[l].state = "fetchFailed" =>
         /\ loads[l].onLoad = 0
         /\ loads[l].decoded = <<>>
         /\ \A k \in 1..Len(loads[l].events) :
              loads[l].events[k] \notin {"swap", "replaceSource", "onLoad", "decodeAudioData"}

\* The fetch of a load() fails on a Playback that an earlier load() had given
\* a decoded buffer.
C31_Witness ==
  /\ last.op = "fetchSettles" /\ last.threw
  /\ last.pre.buffer # CreateBuffer(1, 1, SampleRate)
  /\ pb[last.p] = last.pre
  /\ loads[last.arg].onError = 1 /\ loads[last.arg].onLoad = 0

\* ------------------------------------------- claims on the recorded pause time

\* C32: a Playback that is playing has pauseTime 0 (a pause time is held only
\* while it is not playing), and so a stop() that found it playing leaves
\* pauseTime 0.
C32_NoPauseTimeWhilePlaying ==
  /\ \A p \in Pids : pb[p].playing => pb[p].pauseTime = 0
  /\ (last.op = "stop" /\ last.pre.playing) => pb[last.p].pauseTime = 0

\* stop() on a Playback that plays again from the offset of an earlier pause.
C32_Witness ==
  /\ LastIs("stop") /\ last.ran /\ last.pre.playing
  /\ last.preHist.ran = "play"
  /\ last.pre.node.started /\ last.pre.node.offset > 0
  /\ pb[TheP].pauseTime = 0 /\ ~pb[TheP].playing

\* C33: over every sequence of play, pause and stop with delays >= 0, a pause
\* before the scheduled start included, the offset play() hands to start()
\* of the source node is >= 0.
C33_StartOffsetNotNegative ==
  (last.op = "play" /\ last.ran) =>
    \A k \in 1..Len(last.engine) : last.engine[k].f = "start" => last.engine[k].b >= 0

\* C34: getPlaybackTime() is a position in seconds within the loaded audio:
\* in every state, read at the engine clock of that state, it is >= 0 and
\* less than the duration of the buffer (length / sampleRate seconds).
C34_PlaybackTimeWithinDuration ==
  LET t == GetPlaybackTime(Now, clock)
  IN t >= 0 /\ t * Now.buffer.rate < BufferLength(Now.buffer)

\* ------------------------------------------ claims on the node that plays

\* C35: a Playback whose playing flag is true holds the source node that
\* start() was called on, whatever adjustBuffer() calls (those of Group.sync
\* included) come in between; so pause() and stop() call stop() only on a
\* node that has been started.
C35_PlayingNodeIsStarted ==
  /\ \A p \in Pids : pb[p].playing => pb[p].node.started
  /\ (last.op \in {"pause", "stop"} /\ last.ran) => last.pre.node.started

\* ------------------------------------- claims on the callbacks over time

\* How often callback f ran among the first n that ran.
RECURSIVE Fired(_, _)
Fired(f, n) ==
  IF n = 0 THEN 0 ELSE Fired(f, n - 1) + (IF fired[n] = f THEN 1 ELSE 0)

\* C36: over every interleaving of updateFrequency() and threshold
\* assignments, the callbacks that ran are onSignal, offSignal, onSignal, ...
\* in turn; between calls onSignal ran once more than offSignal when signal is
\* true and as often when it is false; and a threshold assignment runs no
\* callback and leaves signal as it was.
C36_CallbacksAlternate ==
  /\ [](/\ \A i \in 1..Len(fired) :
             fired[i] = IF i % 2 = 1 THEN "onSignal" ELSE "offSignal"
        /\ Fired("onSignal", Len(fired)) - Fired("offSignal", Len(fired))
             = IF an.signal THEN 1 ELSE 0)
  /\ [][anLast'.op = "threshold" => (fired' = fired /\ an'.signal = an.signal)]_vars

\* An updateFrequency() on the bytes of the call before it that ran offSignal:
\* the threshold was raised over the amplitude in between.
C36_Witness ==
  /\ anLast.op = "updateFrequency"
  /\ anLast.ran = <<"offSignal">>
  /\ anLast.arg = anLast.pre.frequencyBuffer
  /\ fired = <<"onSignal", "offSignal">>

\* ---------------------------------------------- claims on the sources lists

\* C37: every Group has a sources list of its own: the list of a Group made
\* without a sources option holds what was added to that Group and nothing
\* else, so adding to one such Group leaves the list of another as it was;
\* and play, pause, stop and sync of a Group reach the sources of that Group.
C37_SourcesListsApart ==
  /\ \A g \in 1..Len(groups.objs) :
       ~groups.objs[g].given => SourcesOf(groups)[g] = groups.objs[g].own
  /\ gLast.op = "push" =>
       \A h \in 1..Len(groups.objs) :
         (h # gLast.g /\ ~groups.objs[h].given /\ ~groups.objs[gLast.g].given)
           => SourcesOf(groups)[h] = SourcesOf(gLast.pre)[h]
  /\ gLast.op \in {"play", "pause", "stop", "sync"} =>
       (~groups.objs[gLast.g].given => gLast.calls = groups.objs[gLast.g].own)

\* ------------------------------------------------- claims on the loop flag

\* C38: the loop getter returns the value last set: the loop setter leaves
\* it at the value given, and no pause, stop, adjustBuffer (Group.sync) or
\* load completion, each of which may replace the source node, changes what
\* it returns; it starts at the constructor's option.
C38_LoopSurvivesReplacement ==
  [][IF last'.op = "loop"
       THEN GetLoop(pb'[last'.p]) = last'.arg
       ELSE \A p \in Pids : GetLoop(pb'[p]) = GetLoop(pb[p])]_vars

\* A pause() that replaced the started node of a looping Playback whose flag
\* differs from the default of a new node.
C38_Witness ==
  /\ LastIs("pause") /\ last.ran /\ ~last.threw
  /\ last.pre.node.started
  /\ ~pb[TheP].node.started
  /\ GetLoop(last.pre) /\ GetLoop(pb[TheP])

\* ------------------------------------------- claims on sync() and samples

\* C39: sync() without a forced length shortens no buffer: every Playback
\* below the Group keeps its channels, every sample it had stays at its
\* index, and the samples appended are zeros.
C39_SyncKeepsSamples ==
  (gLast.op = "sync" /\ ~gLast.forced) =>
    /\ ~gLast.threw
    /\ \A p \in LeavesOf(gLast.g) :
         LET old == gLast.pre[p].buffer
             new == pb[p].buffer
         IN /\ NumberOfChannels(new) = NumberOfChannels(old)
            /\ new.rate = old.rate
            /\ BufferLength(new) >= BufferLength(old)
            /\ \A c \in 1..NumberOfChannels(old) :
                 \A k \in 1..BufferLength(new) :
                   new.ch[c][k] = IF k <= BufferLength(old) THEN old.ch[c][k] ELSE 0

\* sync() on the root that lengthened a nested two-channel Playback of one
\* frame to three frames, next to a Playback it left at three frames.
C39_Witness ==
  /\ gLast.op = "sync" /\ ~gLast.forced /\ gLast.g = 1
  /\ groups[1] = <<P(1), G(2)>>
  /\ gLast.pre[2].buffer = Decoded(2, 1)
  /\ gLast.pre[1].buffer = Decoded(1, 3)
  /\ pb[1].buffer = Decoded(1, 3)
  /\ pb[2].buffer.ch = <<<<11, 0, 0>>, <<21, 0, 0>>>>

\* ------------------------------------- claims on the Group constructor

\* The connections that leave the output of Euphony node e.
From(edges, e) == {c \in edges : c[1] = Output(e)}

\* C40: once a Group is constructed with sources, the output of each source
\* is connected to the Group's input and to nothing else, whatever it was
\* connected to before (the destination, another Group, a connect() of the
\* program), the Group's output is connected to the destination, and every
\* Group constructed earlier keeps its sources list.
C40_SourcesMoveToNewGroup ==
  cLast.op = "Group" =>
    /\ \A i \in 1..Len(cLast.sources) :
         From(graph, cLast.sources[i]) =
           {<<Output(cLast.sources[i]), Input(G(cLast.g))>>}
    /\ <<Output(G(cLast.g)), Destination>> \in graph
    /\ \A h \in WiredGids \ {cLast.g} : groups[h] = cLast.was[h]

\* The second Group was constructed over the first Playback, which the first
\* Group holds and which the program had also connected to the destination.
C40_Witness ==
  /\ cLast.op = "Group" /\ cLast.g = 2
  /\ \E i \in 1..Len(cLast.sources) : cLast.sources[i] = P(1)
  /\ \E i \in 1..Len(groups[1].sources) : groups[1].sources[i] = P(1)
  /\ From(cLast.pre, P(1)) =
       {<<Output(P(1)), Input(G(1))>>, <<Output(P(1)), Destination>>}
  /\ From(graph, P(1)) = {<<Output(P(1)), Input(G(2))>>}

====
